---- MODULE Spec2Model ----
(***************************************************************************)
(* Front end of the compiler: the recursive-descent parser (parser/src)    *)
(* and the AST-to-basic-block lowering (ir/src).                           *)
(*                                                                         *)
(* The parser is a set of mutually recursive operators over the token      *)
(* vector input, each taking the cursor it starts at and returning the   *)
(* Result it returns together with the cursor it leaves.  ParserSpec draws *)
(* a token vector and applies one public parser method to it.              *)
(***************************************************************************)
EXTENDS Integers, Sequences, FiniteSets, TLC

VARIABLES
    input,      \* Parser.input: the token vector
    current,    \* Parser.current: the cursor (0-based)
    called,     \* which parser method was applied ("new": none yet)
    out         \* what that method returned

pvars == <<input, current, called, out>>

-----------------------------------------------------------------------------
(* Tokens (lexer/src/token.rs): a tag and, for the multi-character tokens, *)
(* the payload.                                                            *)

Tok(t) == [t |-> t, v |-> ""]
NUMBER(v) == [t |-> "NUMBER", v |-> v]
IDENTIFIER(v) == [t |-> "IDENTIFIER", v |-> v]
NoTok == [t |-> "None", v |-> ""]

(* AST nodes (common::ast): a node type, its scalar payload, its children. *)
Node(type, val, children) == [type |-> type, val |-> val, children |-> children]
Leaf(type, val) == Node(type, val, <<>>)
NoNode == Node("None", "", <<>>)
add_child(n, c) == [n EXCEPT !.children = Append(@, c)]

(* Result<Option<ASTNode>, Vec<ErrorType>> with the cursor left behind.    *)
Ok(n, p) == [ok |-> TRUE, some |-> TRUE, node |-> n, pos |-> p, errs |-> <<>>]
OkNone(p) == [ok |-> TRUE, some |-> FALSE, node |-> NoNode, pos |-> p, errs |-> <<>>]
ErrEmpty(m, p) == [ok |-> FALSE, some |-> FALSE, node |-> NoNode, pos |-> p, errs |-> <<>>]
Err(m, p) == [ok |-> FALSE, some |-> FALSE, node |-> NoNode, pos |-> p, errs |-> <<m>>]
NoResult == [ok |-> TRUE, some |-> FALSE, node |-> NoNode, pos |-> 0, errs |-> <<>>]

(* What the handler did: the toolkit calls that emit something and the     *)
(* ir_router call on the initial value, in order, and what it returned.    *)
Ev(op, name, type) == [op |-> op, name |-> name, type |-> type]
Lowering(ok, message, events) == [ok |-> ok, message |-> message, events |-> events]
NoLowering == Lowering(TRUE, "none", <<>>)
(* An index out of bounds: the thread panics.                              *)
Panic == Lowering(FALSE, "panic", <<>>)

(* .ok_or_else(|| vec![SyntaxError{m}])?  applied  to a Result<Option<_>>  *)
ok_or_else(r, m) == IF r.ok /\ ~r.some THEN Err(m, r.pos) ELSE r

(* One iteration of a loop of the parser: it leaves the loop with a result *)
(* (return, break or ?) or goes round again with the cursor at pos.       *)
Leave(r) == [left |-> TRUE, result |-> r, acc |-> <<>>, pos |-> r.pos]
Again(acc, pos) == [left |-> FALSE, result |-> NoResult, acc |-> acc, pos |-> pos]

-----------------------------------------------------------------------------
(* parser/src/core.rs                                                      *)

advance_stuck(cur) == cur
advance(cur) == IF cur < Len(input) THEN cur + 1 ELSE cur

get_current_token(cur) == IF cur < Len(input) THEN input[cur + 1] ELSE NoTok

peek_next_token(cur) == IF cur + 1 < Len(input) THEN input[cur + 2] ELSE NoTok

consume_unchecked(cur, expected, message) == OkNone(advance(cur))
consume(cur, expected, message) ==
    IF get_current_token(cur) = Tok(expected)
    THEN OkNone(advance(cur))
    ELSE Err(message, cur)

IsTypeToken(t) ==
    t \in {"TINTEGER", "TBOOLEAN", "TDOUBLE", "TFLOAT", "TCHAR", "TVOID",
           "TSIGNINT", "TUSIGN", "TLONG"}

-----------------------------------------------------------------------------
(* parser/src/primitive.rs                                                 *)

(* The text a STRINGLITERAL or CHAR payload becomes: quoted.               *)
QuoteString(v) == CASE v = "s" -> "\"s\"" [] v = "" -> "\"\"" [] OTHER -> "\"?\""
QuoteChar(v) == CASE v = "c" -> "'c'" [] OTHER -> "'?'"

parse_primitive(cur) ==
    LET tok == get_current_token(cur) IN
    CASE tok.t = "NUMBER" -> Ok(Leaf("Literal", tok.v), advance(cur))
      [] tok.t = "STRINGLITERAL" -> Ok(Leaf("Literal", QuoteString(tok.v)), advance(cur))
      [] tok.t = "CHAR" -> Ok(Leaf("Literal", QuoteChar(tok.v)), advance(cur))
      [] OTHER -> Err("Expected a literal (number, string, or char)", cur)

parse_variable_name(cur) ==
    LET tok == get_current_token(cur) IN
    IF tok.t = "IDENTIFIER"
    THEN [ok |-> TRUE, name |-> tok.v, pos |-> advance(cur), errs |-> <<>>]
    ELSE [ok |-> FALSE, name |-> "", pos |-> cur, errs |-> <<"Expected identifier">>]

DataTypeOf(t) ==
    CASE t = "TINTEGER" -> "Integer"
      [] t = "TBOOLEAN" -> "Boolean"
      [] t = "TDOUBLE" -> "Double"
      [] t = "TFLOAT" -> "Float"
      [] t = "TCHAR" -> "Char"
      [] t = "TVOID" -> "Void"
      [] t = "TSIGNINT" -> "Sign"
      [] t = "TUSIGN" -> "Unsign"
      [] t = "TLONG" -> "Long"
      [] OTHER -> "None"

parse_type(cur) ==
    LET tok == get_current_token(cur) IN
    IF IsTypeToken(tok.t)
    THEN [ok |-> TRUE, dt |-> DataTypeOf(tok.t), pos |-> advance(cur), errs |-> <<>>]
    ELSE [ok |-> FALSE, dt |-> "None", pos |-> cur,
          errs |-> <<"Expected a type keyword (int, boolean, etc.)">>]

-----------------------------------------------------------------------------
(* parser/src/statement.rs: expressions                                    *)

(* The operator string the precedence loop gives a token, "" when the      *)
(* token is not one of its operators (the "_ => break" arm).               *)
OperatorOf(tok) ==
    CASE tok.t = "PLUS" -> "+"
      [] tok.t = "DASH" -> "-"
      [] tok.t = "ASTERISK" -> "*"
      [] tok.t = "FSLASH" -> "/"
      [] tok.t = "PERCENT" -> "%"
      [] tok.t = "LESSTHAN" -> "<"
      [] tok.t = "GREATERTHAN" -> ">"
      [] tok.t = "EQUALEQUAL" -> "=="
      [] tok.t = "NOTEQUAL" -> "!="
      [] OTHER -> ""

get_precedence(op) ==
    CASE op \in {"*", "/", "%"} -> 3
      [] op \in {"+", "-"} -> 2
      [] op \in {"<", ">", "<=", ">="} -> 1
      [] op \in {"==", "!="} -> 0
      [] OTHER -> -1

(* if op_precedence < min_precedence { break; }                            *)
BelowMinimumNoCheck(op_precedence, min_precedence) == FALSE
BelowMinimum(op_precedence, min_precedence) == op_precedence < min_precedence

(* The minimum precedence handed to the parse of the right-hand side.      *)
RightMinimumSame(op_precedence) == op_precedence
RightMinimum(op_precedence) == op_precedence + 1

BinaryExpression(left, operator, right) ==
    Node("BinaryExpression", "", <<left, Leaf("Operator", operator), right>>)

(* The operator of parse_assignment's own loop.                            *)
AssignmentOperatorOf(tok) ==
    CASE tok.t = "PLUS" -> "+"
      [] tok.t = "DASH" -> "-"
      [] tok.t = "ASTERISK" -> "*"
      [] tok.t = "FSLASH" -> "/"
      [] OTHER -> ""

(* self.method(args): the methods of impl Parser that call one another, *)
(* named as the source names them.                                       *)
RECURSIVE self(_, _)
RECURSIVE assignment_loop(_, _)
RECURSIVE precedence_loop(_, _, _)

parse_identifier(cur) ==
    LET name == parse_variable_name(cur) IN
    IF ~name.ok THEN Err(name.errs[1], name.pos)
    ELSE IF get_current_token(name.pos) = Tok("EQUAL")
         THEN self("parse_assignment", <<name.name, name.pos>>)
         ELSE Ok(Leaf("Identifier", name.name), name.pos)

(* The operand of an assignment: the value after = or after an operator. *)
assignment_operand(cur, message) ==
    LET tok == get_current_token(cur) IN
    ok_or_else(
        CASE tok.t = "NUMBER" -> parse_primitive(cur)
          [] tok.t = "IDENTIFIER" -> self("parse_identifier", <<cur>>)
          [] tok.t \in {"DASH", "EXCLAMATIONPOINT"} -> self("parse_unary_expression", <<cur>>)
          [] tok.t = "LPAREN" -> self("parse_parenthesized_expression", <<cur>>)
          [] OTHER -> Err(message, cur),
        message)

(* The loop of parse_assignment  : folds operators flat, left to right.    *)
assignment_loop(assigned_value, cur) ==
    LET operator == AssignmentOperatorOf(get_current_token(cur)) IN
    IF operator = "" THEN Ok(assigned_value, cur)
    ELSE LET right == assignment_operand(advance(cur), "Expected expression after operator") IN
         IF ~right.ok THEN right
         ELSE assignment_loop(BinaryExpression(assigned_value, operator, right.node), right.pos)

parse_assignment(name, cur) ==
    LET eq == consume(cur, "EQUAL", "Expected '=' for assignment") IN
    IF ~eq.ok THEN eq
    ELSE LET first == assignment_operand(eq.pos, "Expected expression after '='") IN
         IF ~first.ok THEN first
         ELSE LET value == self("assignment_loop", <<first.node, first.pos>>) IN
              IF ~value.ok THEN value
              ELSE LET node == Node("Assignment", "", <<Leaf("Identifier", name), value.node>>) IN
                   IF get_current_token(value.pos) = Tok("SEMICOLON")
                   THEN Ok(node, advance(value.pos))
                   ELSE Ok(node, value.pos)

parse_unary_expression(cur) ==
    LET tok == get_current_token(cur) IN
    IF tok.t \notin {"DASH", "EXCLAMATIONPOINT"}
    THEN Err("Expected unary operator (- or !)", cur)
    ELSE LET operator == IF tok.t = "DASH" THEN "-" ELSE "!"
             at == advance(cur)
             next == get_current_token(at)
             operand == ok_or_else(
                 CASE next.t = "NUMBER" -> parse_primitive(at)
                   [] next.t = "IDENTIFIER" -> self("parse_identifier", <<at>>)
                   [] next.t = "LPAREN" -> self("parse_parenthesized_expression", <<at>>)
                   [] OTHER -> Err("Expected expression after unary operator", at),
                 "Expected expression after unary operator")
         IN IF ~operand.ok THEN operand
            ELSE Ok(Node("UnaryExpression", "", <<Leaf("Operator", operator), operand.node>>),
                    operand.pos)

(* The while-let of parse_expression_with_precedence.                      *)
precedence_iteration(left, cur, min_precedence) ==
    LET operator == OperatorOf(get_current_token(cur)) IN
    IF operator = "" THEN Leave(Ok(left, cur))
    ELSE LET op_precedence == get_precedence(operator) IN
         IF BelowMinimum(op_precedence, min_precedence) THEN Leave(Ok(left, cur))
         ELSE LET right == ok_or_else(
                      self("parse_expression_with_precedence",
                           <<advance(cur), RightMinimum(op_precedence)>>),
                      "Expected right-hand side expression")
              IN IF ~right.ok THEN Leave(right)
                 ELSE Again(BinaryExpression(left, operator, right.node), right.pos)

precedence_loop(left, cur, min_precedence) ==
    LET it == precedence_iteration(left, cur, min_precedence) IN
    IF it.left THEN it.result ELSE precedence_loop(it.acc, it.pos, min_precedence)

parse_expression_with_precedence(cur, min_precedence) ==
    LET tok == get_current_token(cur)
        left == ok_or_else(
            CASE tok.t = "NUMBER" -> parse_primitive(cur)
              [] tok.t = "IDENTIFIER" -> self("parse_identifier", <<cur>>)
              [] tok.t \in {"DASH", "EXCLAMATIONPOINT"} -> self("parse_unary_expression", <<cur>>)
              [] tok.t = "LPAREN" -> self("parse_parenthesized_expression", <<cur>>)
              [] OTHER -> Err("Expected expression", cur),
            "Expected left-hand side expression")
    IN IF ~left.ok THEN left
       ELSE self("precedence_loop", <<left.node, left.pos, min_precedence>>)

parse_binary_expression(cur) == self("parse_expression_with_precedence", <<cur, 0>>)

parse_parenthesized_expression(cur) ==
    LET open == consume(cur, "LPAREN", "Expected '(' for parenthesized expression") IN
    IF ~open.ok THEN open
    ELSE LET expr == ok_or_else(parse_binary_expression(open.pos),
                                "Expected expression within parentheses") IN
         IF ~expr.ok THEN expr
         ELSE LET close == consume(expr.pos, "RPAREN",
                                   "Expected ')' to close parenthesized expression") IN
              IF ~close.ok THEN close
              ELSE Ok(expr.node, close.pos)

parse_condition(cur) ==
    LET open == consume(cur, "LPAREN", "Expected '(' after control flow keyword") IN
    IF ~open.ok THEN open
    ELSE LET tok == get_current_token(open.pos)
             expr == ok_or_else(
                 CASE tok.t = "NUMBER" -> parse_primitive(open.pos)
                   [] tok.t = "IDENTIFIER" -> self("parse_identifier", <<open.pos>>)
                   [] tok.t \in {"DASH", "EXCLAMATIONPOINT"} -> self("parse_unary_expression", <<open.pos>>)
                   [] OTHER -> parse_binary_expression(open.pos),
                 "Expected condition expression")
         IN IF ~expr.ok THEN expr
            ELSE LET close == consume(expr.pos, "RPAREN", "Expected ')' after condition") IN
                 IF ~close.ok THEN close
                 ELSE Ok(Node("Condition", "", <<expr.node>>), close.pos)

-----------------------------------------------------------------------------
(* parser/src/block.rs, parser/src/core.rs: statements and the dispatcher  *)

RECURSIVE block_loop(_, _)
RECURSIVE parse_if_statement(_)
RECURSIVE switch_loop(_, _)
RECURSIVE case_body_loop(_, _, _)
RECURSIVE parameter_loop(_, _)

(* The while-let of parse_block, from just after the opening brace.        *)
(* Ran out of tokens without finding a }.                                  *)
unclosed_block_accepted(children, cur) == Ok(Node("BlockExpression", "", children), cur)
unclosed_block(children, cur) == Err("Unclosed block", cur)

block_iteration(children, cur) ==
    LET tok == get_current_token(cur) IN
    CASE tok = NoTok -> Leave(unclosed_block(children, cur))
      [] tok.t = "RBRACKET" -> Leave(Ok(Node("BlockExpression", "", children), advance(cur)))
      [] tok.t = "SEMICOLON" -> Again(children, advance(cur))
      [] OTHER ->
            LET r == self("parse_router", <<cur>>) IN
            IF ~r.ok THEN Leave(r)
            ELSE IF r.some THEN Again(Append(children, r.node), r.pos)
                 ELSE Again(children, advance(r.pos))

block_loop(children, cur) ==
    LET it == block_iteration(children, cur) IN
    IF it.left THEN it.result ELSE block_loop(it.acc, it.pos)

parse_block(cur) ==
    LET open == consume(cur, "LBRACKET", "Expected { to start block") IN
    IF ~open.ok THEN open ELSE self("block_loop", <<<<>>, open.pos>>)

parse_protected_keyword(cur) ==
    LET tok == get_current_token(cur) IN
    CASE tok.t \in {"BREAK", "CONTINUE"} ->
            LET semi == consume(advance(cur), "SEMICOLON",
                                IF tok.t = "BREAK" THEN "Expected ';' after 'break'"
                                                   ELSE "Expected ';' after 'continue'") IN
            IF ~semi.ok THEN semi
            ELSE Ok(Leaf(IF tok.t = "BREAK" THEN "Break" ELSE "Continue", ""), semi.pos)
      [] tok.t = "RETURN" ->
            LET at == advance(cur)
                next == get_current_token(at)
            IN IF next.t = "SEMICOLON" THEN Ok(Leaf("Return", ""), advance(at))
               ELSE LET expr == ok_or_else(
                            CASE next.t = "NUMBER" -> parse_primitive(at)
                              [] next.t = "IDENTIFIER" -> self("parse_identifier", <<at>>)
                              [] next.t \in {"DASH", "EXCLAMATIONPOINT"} -> self("parse_unary_expression", <<at>>)
                              [] next.t = "LPAREN" -> self("parse_parenthesized_expression", <<at>>)
                              [] OTHER -> Err("Expected expression after 'return'", at),
                            "Expected expression after 'return'")
                    IN IF ~expr.ok THEN expr
                       ELSE LET semi == consume(expr.pos, "SEMICOLON",
                                                "Expected ';' after return expression") IN
                            IF ~semi.ok THEN semi
                            ELSE Ok(Node("Return", "",
                                         <<Node("AssignedValue", "", <<expr.node>>)>>), semi.pos)
      [] tok.t \in {"SEMICOLON", "EOF"} -> OkNone(cur)
      [] OTHER -> Err("Expected break, continue, or return", cur)

parse_initialization(cur) ==
    LET ty == parse_type(cur) IN
    IF ~ty.ok THEN Err(ty.errs[1], ty.pos)
    ELSE LET name == parse_variable_name(ty.pos) IN
         IF ~name.ok THEN Err(name.errs[1], name.pos)
         ELSE LET type_node == Leaf("Type", ty.dt)
                  identifier_node == Leaf("Identifier", name.name)
              IN IF get_current_token(name.pos) = Tok("LPAREN")
                 THEN self("parse_function_declaration", <<identifier_node, type_node, name.pos>>)
                 ELSE LET variable_node == Node("Variable", "", <<identifier_node, type_node>>)
                          tok == get_current_token(name.pos)
                          value ==
                              IF tok = Tok("EQUAL")
                              THEN LET at == advance(name.pos)
                                       next == get_current_token(at)
                                   IN ok_or_else(
                                        CASE next.t = "NUMBER" -> parse_primitive(at)
                                          [] next.t = "IDENTIFIER" -> self("parse_identifier", <<at>>)
                                          [] next.t \in {"DASH", "EXCLAMATIONPOINT"} ->
                                                self("parse_unary_expression", <<at>>)
                                          [] OTHER -> Err("Expected expression for assigned value", at),
                                        "Expected expression for assigned value")
                              ELSE OkNone(name.pos)
                      IN IF ~value.ok THEN value
                         ELSE LET node == Node("Initialization", "",
                                      IF value.some
                                      THEN <<variable_node, Node("AssignedValue", "", <<value.node>>)>>
                                      ELSE <<variable_node>>)
                              IN IF get_current_token(value.pos) = Tok("SEMICOLON")
                                 THEN Ok(node, advance(value.pos))
                                 ELSE Ok(node, value.pos)

parse_if_statement(cur) ==
    LET kw == consume(cur, "IF", "Expected 'if' for if statement") IN
    IF ~kw.ok THEN kw
    ELSE LET condition == ok_or_else(self("parse_condition", <<kw.pos>>), "Expected condition after 'if'") IN
    IF ~condition.ok THEN condition
    ELSE LET then_block == ok_or_else(self("parse_block", <<condition.pos>>), "Expected block after if condition") IN
    IF ~then_block.ok THEN then_block
    ELSE LET if_statement == Node("IfStatement", "", <<condition.node, then_block.node>>) IN
         IF get_current_token(then_block.pos) # Tok("ELSE") THEN Ok(if_statement, then_block.pos)
         ELSE LET at == advance(then_block.pos)
                  next == get_current_token(at)
                  else_block ==
                      CASE next.t = "IF" ->
                              ok_or_else(parse_if_statement(at), "Expected if statement after 'else'")
                        [] next.t = "LBRACKET" ->
                              ok_or_else(self("parse_block", <<at>>), "Expected block after 'else'")
                        [] OTHER -> Err("Expected block or if statement after 'else'", at)
              IN IF ~else_block.ok THEN else_block
                 ELSE Ok(add_child(if_statement, else_block.node), else_block.pos)

(* One of parse_for_loop's hand-parsed operands: a token of tag t becomes  *)
(* a leaf of the given node type.                                          *)
for_operand_rejecting(cur, t, type, message) == Err(message, cur)
for_operand(cur, t, type, message) ==
    LET tok == get_current_token(cur) IN
    IF tok.t = t THEN Ok(Leaf(type, tok.v), advance(cur)) ELSE Err(message, cur)

(* The header's three clauses are parsed in turn; the first failure ends   *)
(* the parse.                                                              *)
parse_for_loop(cur) ==
    LET kw == consume(cur, "FOR", "Expected 'for' for for loop") IN
    IF ~kw.ok THEN kw
    ELSE LET open == consume(kw.pos, "LPAREN", "Expected '(' after 'for'") IN
    IF ~open.ok THEN open
    ELSE LET ty == IF IsTypeToken(get_current_token(open.pos).t)
                   THEN parse_type(open.pos)
                   ELSE [ok |-> TRUE, dt |-> "None", pos |-> open.pos, errs |-> <<>>]
             name == parse_variable_name(ty.pos)
         IN
    IF ~name.ok THEN Err(name.errs[1], name.pos)
    ELSE LET identifier_node == Leaf("Identifier", name.name)
             eq == consume(name.pos, "EQUAL", "Expected '=' in for loop initializer") IN
    IF ~eq.ok THEN eq
    ELSE LET number == for_operand(eq.pos, "NUMBER", "Literal",
                                   "Expected number in for loop initializer") IN
    IF ~number.ok THEN number
    ELSE LET initializer_node == Node("LoopInitializer", "",
                 <<Node("Assignment", "", <<identifier_node, number.node>>)>>)
             semi1 == consume(number.pos, "SEMICOLON", "Expected ';' after for loop initializer") IN
    IF ~semi1.ok THEN semi1
    ELSE LET left_id == for_operand(semi1.pos, "IDENTIFIER", "Identifier",
                                    "Expected identifier in for loop condition") IN
    IF ~left_id.ok THEN left_id
    ELSE LET lt == consume(left_id.pos, "LESSTHAN", "Expected comparison operator") IN
    IF ~lt.ok THEN lt
    ELSE LET right_operand == for_operand(lt.pos, "NUMBER", "Literal",
                                          "Expected number in for loop condition") IN
    IF ~right_operand.ok THEN right_operand
    ELSE LET condition_node == Node("Condition", "",
                 <<BinaryExpression(left_id.node, "<", right_operand.node)>>)
             semi2 == consume(right_operand.pos, "SEMICOLON", "Expected ';' after for loop condition") IN
    IF ~semi2.ok THEN semi2
    ELSE LET inc_id == for_operand(semi2.pos, "IDENTIFIER", "Identifier",
                                   "Expected identifier in for loop increment") IN
    IF ~inc_id.ok THEN inc_id
    ELSE LET eq2 == consume(inc_id.pos, "EQUAL", "Expected '=' in for loop increment") IN
    IF ~eq2.ok THEN eq2
    ELSE LET right_id == for_operand(eq2.pos, "IDENTIFIER", "Identifier",
                                     "Expected identifier on right side of assignment") IN
    IF ~right_id.ok THEN right_id
    ELSE LET plus == consume(right_id.pos, "PLUS", "Expected '+' in for loop increment") IN
    IF ~plus.ok THEN plus
    ELSE LET inc_num == for_operand(plus.pos, "NUMBER", "Literal",
                                    "Expected number after '+' in increment") IN
    IF ~inc_num.ok THEN inc_num
    ELSE LET increment_node == Node("LoopIncrement", "",
                 <<Node("Assignment", "",
                        <<inc_id.node, BinaryExpression(right_id.node, "+", inc_num.node)>>)>>)
             close == consume(inc_num.pos, "RPAREN", "Expected ')' after for loop increment") IN
    IF ~close.ok THEN close
    ELSE LET body == ok_or_else(self("parse_block", <<close.pos>>), "Expected block for for loop body") IN
    IF ~body.ok THEN body
    ELSE Ok(Node("ForLoop", "", <<initializer_node, condition_node, increment_node, body.node>>),
            body.pos)

parse_while_loop(cur) ==
    LET kw == consume(cur, "WHILE", "Expected 'while' for while loop") IN
    IF ~kw.ok THEN kw
    ELSE LET condition == ok_or_else(self("parse_condition", <<kw.pos>>), "Expected condition after 'while'") IN
    IF ~condition.ok THEN condition
    ELSE LET body == ok_or_else(self("parse_block", <<condition.pos>>), "Expected block for while loop body") IN
    IF ~body.ok THEN body
    ELSE Ok(Node("WhileLoop", "", <<condition.node, body.node>>), body.pos)

parse_do_while_loop(cur) ==
    LET kw == consume(cur, "DO", "Expected 'do' for do-while loop") IN
    IF ~kw.ok THEN kw
    ELSE LET body == ok_or_else(self("parse_block", <<kw.pos>>), "Expected block for do-while loop body") IN
    IF ~body.ok THEN body
    ELSE LET kw2 == consume(body.pos, "WHILE", "Expected 'while' after do-while loop body") IN
    IF ~kw2.ok THEN kw2
    ELSE LET condition == ok_or_else(self("parse_condition", <<kw2.pos>>),
                                     "Expected condition after 'while' in do-while loop") IN
    IF ~condition.ok THEN condition
    ELSE LET semi == consume(condition.pos, "SEMICOLON", "Expected ';' after do-while loop condition") IN
    IF ~semi.ok THEN semi
    ELSE Ok(Node("DoWhileLoop", "", <<body.node, condition.node>>), semi.pos)

(* The while-let of parse_switch_statement over case and default.          *)
switch_iteration(block, cur) ==
    LET tok == get_current_token(cur) IN
    CASE tok.t = "CASE" ->
            LET r == ok_or_else(self("parse_case", <<cur>>),
                                "Expected case in switch statement") IN
            IF ~r.ok THEN Leave(r) ELSE Again(add_child(block, r.node), r.pos)
      [] tok.t = "DEFAULT" ->
            LET r == ok_or_else(self("parse_default", <<cur>>),
                                "Expected default in switch statement") IN
            IF ~r.ok THEN Leave(r) ELSE Again(add_child(block, r.node), r.pos)
      [] tok.t \in {"RBRACKET", "None"} -> Leave(Ok(block, cur))
      [] OTHER ->
            Leave(Err("Expected case, default, or closing brace in switch statement", cur))

switch_loop(block, cur) ==
    LET it == switch_iteration(block, cur) IN
    IF it.left THEN it.result ELSE switch_loop(it.acc, it.pos)

parse_switch_statement(cur) ==
    LET kw == consume(cur, "SWITCH", "Expected 'switch' for switch statement") IN
    IF ~kw.ok THEN kw
    ELSE LET condition == ok_or_else(self("parse_condition", <<kw.pos>>), "Expected condition after 'switch'") IN
    IF ~condition.ok THEN condition
    ELSE LET open == consume(condition.pos, "LBRACKET", "Expected '{' after switch condition") IN
    IF ~open.ok THEN open
    ELSE LET kids == condition.node.children
             switched == IF Len(kids) > 0 THEN kids[Len(kids)] ELSE condition.node
             block == self("switch_loop", <<Node("BlockExpression", "", <<>>), open.pos>>)
         IN
    IF ~block.ok THEN block
    ELSE LET close == consume(block.pos, "RBRACKET", "Expected '}' to close switch statement") IN
    IF ~close.ok THEN close
    ELSE Ok(Node("SwitchStatement", "", <<switched, block.node>>), close.pos)

(* The loop of parse_case and of parse_default: statements up to the next  *)
(* case, default or closing brace.                                         *)
case_body_iteration(block_expr, cur, message) ==
    LET tok == get_current_token(cur) IN
    CASE tok.t \in {"CASE", "DEFAULT", "RBRACKET"} -> Leave(Ok(block_expr, cur))
      [] tok = NoTok -> Leave(Err(message, cur))
      [] OTHER ->
            LET r == self("parse_router", <<cur>>) IN
            IF ~r.ok THEN Leave(r)
            ELSE IF r.some THEN Again(add_child(block_expr, r.node), r.pos)
                 ELSE Again(block_expr, advance(r.pos))

case_body_loop(block_expr, cur, message) ==
    LET it == case_body_iteration(block_expr, cur, message) IN
    IF it.left THEN it.result ELSE case_body_loop(it.acc, it.pos, message)

parse_case(cur) ==
    LET kw == consume(cur, "CASE", "Expected 'case' for case statement") IN
    IF ~kw.ok THEN kw
    ELSE LET tok == get_current_token(kw.pos)
             case_value == ok_or_else(
                 CASE tok.t = "NUMBER" -> parse_primitive(kw.pos)
                   [] tok.t = "IDENTIFIER" -> self("parse_identifier", <<kw.pos>>)
                   [] OTHER -> Err("Expected expression after 'case'", kw.pos),
                 "Expected expression after 'case'")
         IN
    IF ~case_value.ok THEN case_value
    ELSE LET colon == consume(case_value.pos, "COLON", "Expected ':' after case value") IN
    IF ~colon.ok THEN colon
    ELSE LET body == self("case_body_loop", <<Node("BlockExpression", "", <<>>), colon.pos,
                                    "Unexpected end of input in case statement">>) IN
    IF ~body.ok THEN body
    ELSE Ok(Node("Case", "", <<case_value.node, body.node>>), body.pos)

parse_default(cur) ==
    LET kw == consume(cur, "DEFAULT", "Expected 'default' for default statement") IN
    IF ~kw.ok THEN kw
    ELSE LET colon == consume(kw.pos, "COLON", "Expected ':' after 'default'") IN
    IF ~colon.ok THEN colon
    ELSE LET body == self("case_body_loop", <<Node("BlockExpression", "", <<>>), colon.pos,
                                    "Unexpected end of input in default statement">>) IN
    IF ~body.ok THEN body
    ELSE Ok(Node("Default", "", <<body.node>>), body.pos)

(* The parameter loop of parse_function_declaration.                       *)
parameter_loop(function_declaration, cur) ==
    LET tok == get_current_token(cur) IN
    CASE tok.t = "RPAREN" -> Ok(function_declaration, advance(cur))
      [] IsTypeToken(tok.t) ->
            LET ty == parse_type(cur)
                name == parse_variable_name(ty.pos)
            IN IF ~name.ok THEN Err(name.errs[1], name.pos)
               ELSE LET param_node == Node("Parameter", "",
                            <<Leaf("Identifier", name.name), Leaf("Type", ty.dt)>>)
                        next == IF get_current_token(name.pos) = Tok("COMMA")
                                THEN advance(name.pos) ELSE name.pos
                    IN parameter_loop(add_child(function_declaration, param_node), next)
      [] OTHER -> Err("Expected parameter type or closing parenthesis", cur)

parse_function_declaration(identifier_node, return_type_node, cur) ==
    LET open == consume(cur, "LPAREN", "Expected '(' after function name") IN
    IF ~open.ok THEN open
    ELSE LET params == self("parameter_loop", <<Node("FunctionDeclaration", "", <<identifier_node>>), open.pos>>) IN
    IF ~params.ok THEN params
    ELSE LET body == ok_or_else(self("parse_block", <<params.pos>>), "Expected function body") IN
    IF ~body.ok THEN body
    ELSE Ok(add_child(add_child(params.node, return_type_node), body.node), body.pos)

RECURSIVE variant_loop(_, _)
variant_loop(enum_declaration, cur) ==
    LET tok == get_current_token(cur) IN
    CASE tok.t = "IDENTIFIER" ->
            LET variant_node == Node("Variant", "", <<Leaf("Identifier", tok.v)>>)
                at == advance(cur)
                next == IF get_current_token(at) = Tok("COMMA") THEN advance(at) ELSE at
            IN variant_loop(add_child(enum_declaration, variant_node), next)
      [] tok.t = "RBRACE" -> Ok(enum_declaration, advance(cur))
      [] OTHER -> Err("Expected variant name or closing brace", cur)

parse_enum_declaration(cur) ==
    LET kw == consume(cur, "ENUM", "Expected 'enum' for enum declaration") IN
    IF ~kw.ok THEN kw
    ELSE LET name == parse_variable_name(kw.pos) IN
    IF ~name.ok THEN Err(name.errs[1], name.pos)
    ELSE LET open == consume(name.pos, "LBRACE", "Expected '{' after enum name") IN
    IF ~open.ok THEN open
    ELSE LET variants == variant_loop(Node("EnumDeclaration", "", <<Leaf("Identifier", name.name)>>),
                                      open.pos) IN
    IF ~variants.ok THEN variants
    ELSE IF get_current_token(variants.pos) = Tok("SEMICOLON")
         THEN Ok(variants.node, advance(variants.pos))
         ELSE variants

RECURSIVE field_loop(_, _)
field_loop(struct_declaration, cur) ==
    LET tok == get_current_token(cur) IN
    CASE tok.t = "IDENTIFIER" ->
            LET colon == consume(advance(cur), "COLON", "Expected ':' after field name") IN
            IF ~colon.ok THEN colon
            ELSE LET ty == parse_type(colon.pos) IN
                 IF ~ty.ok THEN Err(ty.errs[1], ty.pos)
                 ELSE LET field_node == Node("Field", "",
                              <<Leaf("Literal", tok.v), Leaf("Type", ty.dt)>>)
                          next == IF get_current_token(ty.pos) = Tok("COMMA")
                                  THEN advance(ty.pos) ELSE ty.pos
                      IN field_loop(add_child(struct_declaration, field_node), next)
      [] tok.t = "RBRACE" ->
            LET at == advance(cur) IN
            IF get_current_token(at) = Tok("SEMICOLON")
            THEN Ok(struct_declaration, advance(at))
            ELSE Ok(struct_declaration, at)
      [] OTHER -> Err("Expected field name or closing brace", cur)

parse_struct_declaration(cur) ==
    LET kw == consume(cur, "STRUCT", "Expected 'struct' for struct declaration") IN
    IF ~kw.ok THEN kw
    ELSE LET name == parse_variable_name(kw.pos) IN
    IF ~name.ok THEN Err(name.errs[1], name.pos)
    ELSE LET open == consume(name.pos, "LBRACE", "Expected '{' after struct name") IN
    IF ~open.ok THEN open
    ELSE field_loop(Node("StructDeclaration", "", <<Leaf("Identifier", name.name)>>), open.pos)

parse_router_unexpected(cur) == Err("Unexpected token in top-level", cur)

(* The dispatcher: routes on the current token.                            *)
parse_router(cur) ==
    LET tok == get_current_token(cur) IN
    IF cur >= Len(input) THEN OkNone(cur)
    ELSE CASE tok.t = "EOF" -> OkNone(cur)
           [] tok.t = "SEMICOLON" -> OkNone(advance(cur))
           [] tok.t = "LBRACKET" -> self("parse_block", <<cur>>)
           [] tok.t = "RBRACKET" -> OkNone(advance(cur))
           [] tok.t \in {"NUMBER", "STRINGLITERAL", "CHAR"} -> parse_primitive(cur)
           [] tok.t = "IDENTIFIER" -> parse_binary_expression(cur)
           [] tok.t \in {"DASH", "EXCLAMATIONPOINT"} -> parse_binary_expression(cur)
           [] tok.t = "IF" -> self("parse_if_statement", <<cur>>)
           [] tok.t = "FOR" -> self("parse_for_loop", <<cur>>)
           [] tok.t = "WHILE" -> self("parse_while_loop", <<cur>>)
           [] tok.t = "DO" -> self("parse_do_while_loop", <<cur>>)
           [] tok.t = "SWITCH" -> self("parse_switch_statement", <<cur>>)
           [] tok.t = "CASE" -> self("parse_case", <<cur>>)
           [] tok.t = "DEFAULT" -> self("parse_default", <<cur>>)
           [] tok.t = "STRUCT" -> parse_struct_declaration(cur)
           [] tok.t = "ENUM" -> parse_enum_declaration(cur)
           [] tok.t \in {"BREAK", "CONTINUE", "RETURN"} -> parse_protected_keyword(cur)
           [] IsTypeToken(tok.t) -> self("parse_initialization", <<cur>>)
           [] tok.t \in {"PLUS", "ASTERISK", "FSLASH", "LESSTHAN", "GREATERTHAN",
                         "EQUALEQUAL", "NOTEQUAL"} -> parse_binary_expression(cur)
           [] tok.t \in {"PLUSPLUS", "MINUSMINUS"} -> self("parse_unary_expression", <<cur>>)
           [] tok.t \in {"ANDAND", "BARBAR"} -> parse_binary_expression(cur)
           [] tok.t = "LPAREN" -> parse_binary_expression(cur)
           [] OTHER -> Err("Unexpected token in top-level", cur)

(* The driver loop of Parser::parse.                                       *)
RECURSIVE parse_loop(_, _)
parse_iteration(children, cur) ==
    LET tok == get_current_token(cur) IN
    IF tok = NoTok \/ tok.t = "EOF"
    THEN Leave(Ok(Node("TopLevelExpression", "", children), cur))
    ELSE LET r == self("parse_router", <<cur>>) IN
         IF ~r.ok THEN Leave(r)
         ELSE IF r.some THEN Again(Append(children, r.node), r.pos)
              ELSE Again(children, advance(r.pos))

parse_loop(children, cur) ==
    LET it == parse_iteration(children, cur) IN
    IF it.left THEN it.result ELSE parse_loop(it.acc, it.pos)

self(method, a) ==
    CASE method = "parse_identifier" -> parse_identifier(a[1])
      [] method = "parse_assignment" -> parse_assignment(a[1], a[2])
      [] method = "assignment_loop" -> assignment_loop(a[1], a[2])
      [] method = "parse_unary_expression" -> parse_unary_expression(a[1])
      [] method = "parse_expression_with_precedence" -> parse_expression_with_precedence(a[1], a[2])
      [] method = "precedence_loop" -> precedence_loop(a[1], a[2], a[3])
      [] method = "parse_parenthesized_expression" -> parse_parenthesized_expression(a[1])
      [] method = "parse_router" -> parse_router(a[1])
      [] method = "parse_block" -> parse_block(a[1])
      [] method = "block_loop" -> block_loop(a[1], a[2])
      [] method = "parse_if_statement" -> parse_if_statement(a[1])
      [] method = "parse_for_loop" -> parse_for_loop(a[1])
      [] method = "parse_while_loop" -> parse_while_loop(a[1])
      [] method = "parse_do_while_loop" -> parse_do_while_loop(a[1])
      [] method = "parse_switch_statement" -> parse_switch_statement(a[1])
      [] method = "switch_loop" -> switch_loop(a[1], a[2])
      [] method = "parse_case" -> parse_case(a[1])
      [] method = "parse_default" -> parse_default(a[1])
      [] method = "case_body_loop" -> case_body_loop(a[1], a[2], a[3])
      [] method = "parse_initialization" -> parse_initialization(a[1])
      [] method = "parse_function_declaration" -> parse_function_declaration(a[1], a[2], a[3])
      [] method = "parameter_loop" -> parameter_loop(a[1], a[2])
      [] method = "parse_loop" -> parse_loop(a[1], a[2])
      [] method = "parse_condition" -> parse_condition(a[1])

parse == self("parse_loop", <<<<>>, 0>>)

-----------------------------------------------------------------------------
(* ir/src: lowering of the AST to basic blocks.                            *)
(*                                                                         *)
(* The generator walks the tree by recursive calls of ir_router.  The      *)
(* call stack is the variable frames: a construct's handler runs up to the *)
(* lowering of its body in one step, the statements of the body are        *)
(* lowered one per step, and the rest of the handler runs in a last step.  *)
(* The tree being lowered is drawn node by node as the walk reaches it.    *)

VARIABLES
    frames,                  \* the handlers whose body is being lowered, innermost last
    layout,                  \* the function's basic blocks in layout order
    log,                     \* every block created and instruction emitted, in order
    builder,                 \* the block the builder is positioned at the end of
    current_insert_block,    \* IRGenerator's insertion anchor (NoBlock: None)
    next_label_id,           \* IRGenerator's label counter
    store_table,             \* names that have storage
    break_continue_targets,  \* stack of <<break target, continue target>>, top last
    result,                  \* "none", "running", "ok" or the error returned
    returned,                \* the handler call that returned in the last step
    lowered,                 \* how many nodes have been routed so far
    resource_pools,          \* the state of the mutex around the resource pool
    cond_node,               \* the condition of the construct the last step lowered
    initialization_node,     \* the Initialization node handed to generate_initialization_ir
    ir                       \* what generate_initialization_ir did with it

ivars == <<frames, layout, log, builder, current_insert_block, next_label_id, store_table,
           break_continue_targets, result, returned, lowered, resource_pools, cond_node>>

lvars == <<initialization_node, ir>>

vars == <<input, current, called, out, frames, layout, log, builder, current_insert_block,
          next_label_id, store_table, break_continue_targets, result, returned, lowered,
          resource_pools, cond_node,
          initialization_node, ir>>

MaxDepth == 3
MaxNodes == 3

Names == {"x"}

(* A basic block is known by its label: a prefix and the label id.         *)
Block(label, id) == [label |-> label, id |-> id]
NoBlock == Block("none", -1)

(* format!("{label}ID{}", id): the name a block is created under.          *)
Name(block) == block.label \o "ID" \o ToString(block.id)

(* get_next_label_id: the value is taken and the counter moves on.         *)
get_next_label_id_stuck(id) == id
get_next_label_id(id) == id + 1

(* Instructions.                                                           *)
Instr(op, target, other, name) == [op |-> op, target |-> target, other |-> other, name |-> name]
NoInstr == Instr("none", NoBlock, NoBlock, "")
Br(target) == Instr("br", target, NoBlock, "")
CondBr(cond, then, else) == Instr("condbr", then, else, cond)
Store(name) == Instr("store", NoBlock, NoBlock, name)
Alloca(name) == Instr("alloca", NoBlock, NoBlock, name)
Value(name) == Instr("value", NoBlock, NoBlock, name)
ICmpEq == Instr("icmp_eq", NoBlock, NoBlock, "cmptmp")
LogicalNot == Instr("not", NoBlock, NoBlock, "nottmp")
Ret(name) == Instr("ret", NoBlock, NoBlock, name)

(* Entries of log: handler by (of the construct with label id id) created  *)
(* block, or emitted ins at the end of block.                              *)
Created(by, id, block) == [ev |-> "block", by |-> by, id |-> id, block |-> block, ins |-> NoInstr]
Emitted(by, id, block, ins) == [ev |-> "instr", by |-> by, id |-> id, block |-> block, ins |-> ins]

(* Result<Option<Tag>, ErrorType> of a handler.                            *)
DevError(message) == [kind |-> "DevError", message |-> message]
Running == [kind |-> "running", message |-> ""]
Done == [kind |-> "ok", message |-> ""]
Fresh == [kind |-> "none", message |-> ""]

Returned(handler, id, arity, name, ok) ==
    [handler |-> handler, id |-> id, arity |-> arity, name |-> name, ok |-> ok]
NoReturn == Returned("none", -1, 0, "", TRUE)

Frame(kind, id, arity, phase, has_body) ==
    [kind |-> kind, id |-> id, arity |-> arity, phase |-> phase, has_body |-> has_body]

Top == frames[Len(frames)]
Pop(s) == SubSeq(s, 1, Len(s) - 1)

(* A pop that leaves the stack as it is.                                   *)
pop_target_kept(targets) == targets

(* IRGenerator::pop_target: removes the top pair of the stack.             *)
pop_target(targets) == Pop(targets)

(* safe_llvm: create_basic_block_after puts the new block right after the  *)
(* anchor in the function's layout.                                        *)
create_basic_block_after(blocks, anchor, block) ==
    LET i == CHOOSE k \in 1..Len(blocks) : blocks[k] = anchor
    IN SubSeq(blocks, 1, i) \o <<block>> \o SubSeq(blocks, i + 1, Len(blocks))

(* get_current_insert_block().unwrap_or_else(|| get_current_block(builder)) *)
current_insert == IF current_insert_block # NoBlock THEN current_insert_block ELSE builder

(* Blocks created one after the other, the first after current_insert.     *)
RECURSIVE create_chain(_, _, _)
create_chain(blocks, anchor, new) ==
    IF new = <<>> THEN blocks
    ELSE create_chain(create_basic_block_after(blocks, anchor, new[1]), new[1], Tail(new))

CreatedAll(by, id, new) == [i \in 1..Len(new) |-> Created(by, id, new[i])]

EmittedAll(by, id, block, instrs) == [i \in 1..Len(instrs) |-> Emitted(by, id, block, instrs[i])]

-----------------------------------------------------------------------------
(* Expressions (ir_router on a value node): the instructions the lowering  *)
(* of a value emits; no expression creates a block.                        *)

generate_value_ir(value) == IF value = "literal" THEN <<>> ELSE <<Value("tmp")>>

(* Conditions: the first child of a construct is a bare Literal node or a   *)
(* Condition node around the expression; the expression is the literal     *)
(* true or a comparison.                                                   *)
Cond(node, kind) == [node |-> node, kind |-> kind]

(* The step lowered no condition.                                          *)
NoCond == Cond("none", "")

Conditions ==
    {Cond("Literal", "true"), Cond("Condition", "true")}

LoopConditions == {Cond("Literal", "true"), Cond("Condition", "compare")}

generate_condition_ir(cond) == IF cond.kind = "compare" THEN <<Value("cmp")>> ELSE <<>>

(* value == 0 then logical not: "nonzero is true".                         *)
Truthiness == <<ICmpEq, LogicalNot>>

search_store_table(name) == name \in store_table

(* The resource pool: an Arc<Mutex<..>> every handler locks around its      *)
(* toolkit calls.  std's Mutex is not re-entrant: try_lock on a mutex the   *)
(* thread already holds returns Err, which .expect turns into a panic, and  *)
(* lock on it either panics or never returns.                               *)
Free == "free"
Held == "held"
Panicked == "panicked"
Deadlocked == "deadlocked"

acquire(pool, call) ==
    IF pool = Free THEN {Held}
    ELSE IF call = "try_lock" THEN {Panicked}
    ELSE {Panicked, Deadlocked}

(* One step of a handler that touches the pool.  "drop" is drop(guard) or   *)
(* the end of the guard's scope, "return" leaves the handler (Ok, Err or    *)
(* ?), "ir_router" lowers a child, whose handler acquires the pool itself.  *)
pool_step(pool, op) ==
    IF pool \in {Panicked, Deadlocked} THEN {pool}
    ELSE CASE op \in {"try_lock", "lock"} -> acquire(pool, op)
           [] op \in {"drop", "return"} -> {Free}
           [] op = "ir_router" -> IF pool = Held THEN {Panicked, Deadlocked} ELSE {Free}

RECURSIVE pool_after(_, _)
pool_after(pools, ops) ==
    IF ops = <<>> THEN pools
    ELSE pool_after(UNION {pool_step(p, Head(ops)) : p \in pools}, Tail(ops))

(* A return that keeps its guard while the value is routed.                 *)
generate_return_ir_pool_held ==
    {<<"try_lock", "return">>,
     <<"try_lock", "ir_router", "return">>}

(* generate_return_ir: the guard taken at the top is dropped before the     *)
(* value is routed and taken again after it.                                *)
generate_return_ir_pool ==
    {<<"try_lock", "return">>,
     <<"try_lock", "drop", "ir_router", "try_lock", "return">>}

(* What each handler does with the pool, in order, on each of its paths,    *)
(* for the part of the handler one step covers.  A step that enters a body  *)
(* ends with the ir_router call on the body.                                *)
pool_ops(segment) ==
    CASE segment = "FunctionDeclaration" ->
            {<<>>, <<"ir_router", "try_lock", "drop", "ir_router">>}
      [] segment = "FunctionReturn" -> {<<"return">>}
      [] segment = "Assignment" -> {<<"ir_router", "lock", "return">>}
      [] segment = "Initialization" ->
            {<<"try_lock", "drop", "try_lock", "drop", "ir_router", "try_lock", "return">>,
             <<"try_lock", "drop", "try_lock", "drop", "try_lock", "drop", "try_lock",
               "return">>}
      [] segment \in {"Break", "Continue"} -> {<<"return">>, <<"try_lock", "return">>}
      [] segment = "ReturnStatement" -> generate_return_ir_pool
      [] segment = "WhileEnter" ->
            {<<"return">>,
             <<"try_lock", "drop", "ir_router", "try_lock", "drop", "ir_router">>,
             <<"try_lock", "drop", "try_lock", "drop", "try_lock", "drop">>}
      [] segment = "WhileExit" -> {<<"try_lock", "return">>}
      [] segment = "DoWhileEnter" -> {<<"return">>, <<"try_lock", "drop", "ir_router">>}
      [] segment = "DoWhileExit" ->
            {<<"try_lock", "drop", "ir_router", "try_lock", "return">>,
             <<"try_lock", "drop", "try_lock", "drop", "try_lock", "return">>}
      [] segment = "ForEnter" ->
            {<<"return">>,
             <<"ir_router", "try_lock", "drop", "ir_router", "try_lock", "drop", "ir_router">>,
             <<"try_lock", "drop", "try_lock", "drop", "try_lock", "drop", "ir_router">>}
      [] segment = "ForExit" ->
            {<<"try_lock", "drop", "ir_router", "try_lock", "return">>,
             <<"try_lock", "drop", "try_lock", "return">>}
      [] segment = "IfEnter" ->
            {<<"return">>, <<"try_lock", "drop", "ir_router", "try_lock", "drop", "ir_router">>}
      [] segment = "IfThenExit" ->
            {<<"try_lock", "drop", "ir_router">>, <<"try_lock", "drop", "try_lock", "return">>}
      [] segment = "IfElseExit" -> {<<"try_lock", "return">>}

Segments ==
    {"FunctionDeclaration", "FunctionReturn", "Assignment", "Initialization", "Break",
     "Continue", "ReturnStatement", "WhileEnter", "WhileExit", "DoWhileEnter", "DoWhileExit",
     "ForEnter", "ForExit", "IfEnter", "IfThenExit", "IfElseExit"}

(* A handler runs only in a process that has not panicked or hung, and      *)
(* leaves the pool as its operations leave it.                              *)
uses_pool(segment) ==
    /\ resource_pools \notin {Panicked, Deadlocked}
    /\ \E ops \in pool_ops(segment) : resource_pools' \in pool_after({resource_pools}, ops)

IInit ==
    /\ frames = <<>>
    /\ layout = <<>>
    /\ log = <<>>
    /\ builder = NoBlock
    /\ current_insert_block = NoBlock
    /\ next_label_id = 0
    /\ store_table = {}
    /\ break_continue_targets = <<>>
    /\ result = Fresh
    /\ returned = NoReturn
    /\ lowered = 0
    /\ resource_pools = Free
    /\ cond_node = NoCond

-----------------------------------------------------------------------------
(* ir/src/statement.rs                                                     *)

(* A node can be routed: a body is being lowered and the tree has nodes    *)
(* left.                                                                   *)
CanLower ==
    /\ result = Running
    /\ frames # <<>>
    /\ Top.has_body
    /\ lowered < MaxNodes

CanNest == CanLower /\ Len(frames) < MaxDepth

(* What a handler that runs to its end without entering a body does: the   *)
(* entries it adds to log, the table it leaves, and the Result it returns. *)
Outcome(ok, events, table, message) ==
    [ok |-> ok, events |-> events, table |-> table, message |-> message]

(* An assignment that declares: storage is recorded for a name that has   *)
(* none, and the store is emitted either way.                              *)
generate_assignment_ir_declaring(at, name, value) ==
    Outcome(TRUE,
            EmittedAll("value", -1, at, generate_value_ir(value))
                \o <<Emitted("assignment", -1, at, Store(name))>>,
            store_table \cup {name}, "")

(* With the builder at the end of block at: the assignee's storage is      *)
(* looked up after the value has been lowered; a store is emitted when     *)
(* there is storage, and the failure to store is returned as a developer   *)
(* error.                                                                  *)
generate_assignment_ir(at, name, value) ==
    LET llvm_value == EmittedAll("value", -1, at, generate_value_ir(value)) IN
    IF search_store_table(name)
    THEN Outcome(TRUE, llvm_value \o <<Emitted("assignment", -1, at, Store(name))>>,
                 store_table, "")
    ELSE Outcome(FALSE, llvm_value, store_table, "Failed to reassign variable")

(* The default case: alloca, record the storage, store the initial value.  *)
generate_initialization_ir(at, name, value) ==
    Outcome(TRUE,
            <<Emitted("initialization", -1, at, Alloca(name))>>
                \o EmittedAll("value", -1, at, generate_value_ir(value))
                \o <<Emitted("initialization", -1, at, Store(name))>>,
            store_table \cup {name}, "")

(* A statement of a loop header: the child of LoopInitializer or of        *)
(* LoopIncrement, routed like any statement.                               *)
HeaderStatements == {"Assignment", "Initialization"}

header_statement(at, kind, name, value) ==
    CASE kind = "Assignment" -> generate_assignment_ir(at, name, value)
      [] kind = "Initialization" -> generate_initialization_ir(at, name, value)
      [] OTHER -> Outcome(TRUE, <<>>, store_table, "")

(* A handler without a body returns, Ok or Err; an Err unwinds every       *)
(* caller, each passing it on with "?".                                    *)
Return(handler, name, r) ==
    /\ log' = log \o r.events
    /\ store_table' = r.table
    /\ returned' = Returned(handler, -1, 0, name, r.ok)
    /\ lowered' = lowered + 1
    /\ cond_node' = NoCond
    /\ IF r.ok THEN UNCHANGED <<frames, result>>
       ELSE frames' = <<>> /\ result' = DevError(r.message)
    /\ UNCHANGED <<layout, builder, current_insert_block, next_label_id,
                   break_continue_targets, input, current, called, out, lvars>>

Assignment ==
    /\ CanLower
    /\ \E name \in Names :
          Return("assignment", name, generate_assignment_ir(builder, name, "expression"))
    /\ uses_pool("Assignment")

Initialization ==
    /\ CanLower
    /\ \E name \in Names :
          Return("initialization", name, generate_initialization_ir(builder, name, "literal"))
    /\ uses_pool("Initialization")

(* A break that falls back on the block the builder is in.                 *)
generate_break_ir_lenient ==
    Outcome(TRUE, <<Emitted("break", -1, builder, Br(builder))>>, store_table, "")

generate_break_ir ==
    IF break_continue_targets = <<>>
    THEN Outcome(FALSE, <<>>, store_table, "No break/continue targets available")
    ELSE Outcome(TRUE,
                 <<Emitted("break", -1, builder,
                           Br(break_continue_targets[Len(break_continue_targets)][1]))>>,
                 store_table, "")

generate_continue_ir ==
    IF break_continue_targets = <<>>
    THEN Outcome(FALSE, <<>>, store_table, "No break/continue targets available")
    ELSE Outcome(TRUE,
                 <<Emitted("continue", -1, builder,
                           Br(break_continue_targets[Len(break_continue_targets)][2]))>>,
                 store_table, "")

generate_return_ir ==
    Outcome(TRUE, <<Emitted("return", -1, builder, Ret("void"))>>, store_table, "")

Break == CanLower /\ Return("break", "", generate_break_ir) /\ uses_pool("Break")

Continue == CanLower /\ Return("continue", "", generate_continue_ir) /\ uses_pool("Continue")

ReturnStatement == CanLower /\ Return("return", "", generate_return_ir) /\ uses_pool("ReturnStatement")

-----------------------------------------------------------------------------
(* ir/src/block.rs                                                         *)

(* The function's entry block is created and the builder put at its end;   *)
(* the body is then routed.                                                *)
FunctionDeclaration ==
    /\ result = Fresh
    /\ LET entry_block == Block("entry", next_label_id) IN
          /\ layout' = Append(layout, entry_block)
          /\ log' = Append(log, Created("fn", next_label_id, entry_block))
          /\ builder' = entry_block
          /\ frames' = <<Frame("fn", next_label_id, 3, "body", TRUE)>>
    /\ next_label_id' = get_next_label_id(next_label_id)
    /\ result' = Running
    /\ returned' = NoReturn
    /\ UNCHANGED <<current_insert_block, store_table, break_continue_targets, lowered,
                   input, current, called, out, lvars>>
    /\ uses_pool("FunctionDeclaration")
    /\ cond_node' = NoCond

FunctionReturn ==
    /\ result = Running
    /\ frames # <<>>
    /\ Top.kind = "fn"
    /\ frames' = <<>>
    /\ result' = Done
    /\ returned' = Returned("fn", Top.id, Top.arity, "", TRUE)
    /\ UNCHANGED <<layout, log, builder, current_insert_block, next_label_id, store_table,
                   break_continue_targets, lowered, input, current, called, out, lvars>>
    /\ uses_pool("FunctionReturn")
    /\ cond_node' = NoCond

(* A handler returns Err before doing anything else.                       *)
Reject(handler, n, message) ==
    /\ result' = DevError(message)
    /\ frames' = <<>>
    /\ returned' = Returned(handler, -1, n, "", FALSE)
    /\ lowered' = lowered + 1
    /\ cond_node' = NoCond
    /\ UNCHANGED <<layout, log, builder, current_insert_block, next_label_id, store_table,
                   break_continue_targets, input, current, called, out, lvars>>

(* The numbers of children drawn for a node.  The first statement of the  *)
(* function body is drawn with any number of children up to one more than  *)
(* the most its handler takes; the nodes after it with the numbers the     *)
(* parser builds.                                                          *)
Arities(documented, most) == IF lowered = 0 THEN 0..(most + 1) ELSE documented

(* match children.len() { 0 | 1 | 2 => ..., _ => return Err(DevError) }    *)
InvalidWhileNode(n) == n \notin {0, 1, 2}
InvalidDoWhileNode(n) == n \notin {0, 1, 2}
(* match children.len() { 0 | 1 | 2 | 3 | 4 => ..., _ => return Err }      *)
InvalidForNodeExact(n) == n # 4
InvalidForNode(n) == n \notin {0, 1, 2, 3, 4}
(* if children.len() != 2 && children.len() != 3 { return Err }            *)
InvalidIfNode(n) == n # 2 /\ n # 3

(* The condition drawn for a node of n children whose condition is there   *)
(* from has_cond children on.                                              *)
ConditionsFor(present) == IF present THEN LoopConditions ELSE {Cond("None", "1")}

(* The loop's condition (the constant 1 when the node has none), compared  *)
(* with zero and negated, then the conditional branch.                     *)
loop_condition(by, id, cond, block, then, else) ==
    EmittedAll("condition", id, block, generate_condition_ir(cond))
        \o EmittedAll(by, id, block, Truthiness \o <<CondBr("nottmp", then, else)>>)

(* A while that pushes its targets the other way round.                    *)
WhileTargetsSwapped(end_block, cond_block) == <<cond_block, end_block>>

(* self.push_break_continue_target(end_block, cond_block)                  *)
WhileTargets(end_block, cond_block) == <<end_block, cond_block>>

WhileEnter ==
    /\ CanNest
    /\ \E n \in Arities({2}, 2) :
          IF InvalidWhileNode(n)
          THEN Reject("while", n, "Invalid while node: unexpected number of children")
          ELSE \E cond \in ConditionsFor(n >= 1) :
                  LET next_id == next_label_id
                      cond_block == Block("while_cond", next_id)
                      body_block == Block("while_body", next_id)
                      end_block == Block("while_end", next_id)
                      new == <<cond_block, body_block, end_block>>
                  IN /\ next_label_id' = get_next_label_id(next_label_id)
                     /\ layout' = create_chain(layout, current_insert, new)
                     /\ log' = log \o CreatedAll("while", next_id, new)
                                   \o <<Emitted("while", next_id, builder, Br(cond_block))>>
                                   \o loop_condition("while", next_id, cond, cond_block,
                                                     body_block, end_block)
                     /\ builder' = body_block
                     /\ break_continue_targets' =
                            Append(break_continue_targets, WhileTargets(end_block, cond_block))
                     /\ frames' = Append(frames, Frame("while", next_id, n, "body", n = 2))
                     /\ returned' = NoReturn
                     /\ lowered' = lowered + 1
                     /\ cond_node' = cond
                     /\ UNCHANGED <<current_insert_block, store_table, result,
                                    input, current, called, out, lvars>>
    /\ uses_pool("WhileEnter")

WhileExit ==
    /\ result = Running
    /\ frames # <<>>
    /\ Top.kind = "while"
    /\ break_continue_targets' = pop_target(break_continue_targets)
    /\ log' = Append(log, Emitted("while", Top.id, builder, Br(Block("while_cond", Top.id))))
    /\ builder' = Block("while_end", Top.id)
    /\ frames' = Pop(frames)
    /\ returned' = Returned("while", Top.id, Top.arity, "", TRUE)
    /\ UNCHANGED <<layout, current_insert_block, next_label_id, store_table, result, lowered,
                   input, current, called, out, lvars>>
    /\ uses_pool("WhileExit")
    /\ cond_node' = NoCond

(* The block the entry branch of a do-while goes to.                       *)
DoWhileEntryTargetCond(body_block, cond_block) == cond_block
DoWhileEntryTarget(body_block, cond_block) == body_block

DoWhileEnter ==
    /\ CanNest
    /\ \E n \in Arities({2}, 2) :
          IF InvalidDoWhileNode(n)
          THEN Reject("do_while", n, "Invalid do-while node: unexpected number of children")
          ELSE LET next_id == next_label_id
                   body_block == Block("do_body", next_id)
                   cond_block == Block("do_cond", next_id)
                   end_block == Block("do_end", next_id)
                   new == <<body_block, cond_block, end_block>>
               IN /\ next_label_id' = get_next_label_id(next_label_id)
                  /\ layout' = create_chain(layout, current_insert, new)
                  /\ log' = log \o CreatedAll("do_while", next_id, new)
                                \o <<Emitted("do_while", next_id, builder,
                                             Br(DoWhileEntryTarget(body_block, cond_block)))>>
                  /\ builder' = body_block
                  /\ break_continue_targets' =
                         Append(break_continue_targets, <<end_block, cond_block>>)
                  /\ frames' = Append(frames, Frame("do_while", next_id, n, "body", n >= 1))
                  /\ returned' = NoReturn
                  /\ lowered' = lowered + 1
                  /\ cond_node' = NoCond
                  /\ UNCHANGED <<current_insert_block, store_table, result,
                                 input, current, called, out, lvars>>
    /\ uses_pool("DoWhileEnter")

DoWhileExit ==
    /\ result = Running
    /\ frames # <<>>
    /\ Top.kind = "do_while"
    /\ \E cond \in ConditionsFor(Top.arity = 2) :
          LET body_block == Block("do_body", Top.id)
              cond_block == Block("do_cond", Top.id)
              end_block == Block("do_end", Top.id)
          IN /\ log' = log \o <<Emitted("do_while", Top.id, builder, Br(cond_block))>>
                           \o loop_condition("do_while", Top.id, cond, cond_block,
                                             body_block, end_block)
             /\ builder' = end_block
             /\ cond_node' = cond
    /\ break_continue_targets' = pop_target(break_continue_targets)
    /\ frames' = Pop(frames)
    /\ returned' = Returned("do_while", Top.id, Top.arity, "", TRUE)
    /\ UNCHANGED <<layout, current_insert_block, next_label_id, store_table, result, lowered,
                   input, current, called, out, lvars>>
    /\ uses_pool("DoWhileExit")

(* The continue target a for loop pushes.                                  *)
ForContinueTargetCond(cond_block, inc_block) == cond_block
ForContinueTarget(cond_block, inc_block) == inc_block

(* The blocks of a for loop in the order they are created.                 *)
ForBlocksBodyFirst(next_id) ==
    <<Block("for_body", next_id), Block("for_cond", next_id),
      Block("for_inc", next_id), Block("for_end", next_id)>>
ForBlocks(next_id) ==
    <<Block("for_cond", next_id), Block("for_body", next_id),
      Block("for_inc", next_id), Block("for_end", next_id)>>

ForEnter ==
    /\ CanNest
    /\ \E n \in Arities({4}, 4) :
          IF InvalidForNode(n)
          THEN Reject("for", n, "Invalid for node: unexpected number of children")
          ELSE \E kind \in (IF n >= 3 THEN HeaderStatements ELSE {"None"}),
                  name \in (IF n >= 3 THEN Names ELSE {""}),
                  cond \in ConditionsFor(n >= 2) :
                  LET init == header_statement(builder, kind, name, "literal")
                      next_id == next_label_id
                      cond_block == Block("for_cond", next_id)
                      body_block == Block("for_body", next_id)
                      inc_block == Block("for_inc", next_id)
                      end_block == Block("for_end", next_id)
                  IN IF ~init.ok
                     THEN /\ log' = log \o init.events
                          /\ result' = DevError(init.message)
                          /\ frames' = <<>>
                          /\ returned' = Returned("for", -1, n, name, FALSE)
                          /\ lowered' = lowered + 1
                          /\ cond_node' = NoCond
                          /\ UNCHANGED <<layout, builder, current_insert_block, next_label_id,
                                         store_table, break_continue_targets,
                                         input, current, called, out, lvars>>
                     ELSE /\ store_table' = init.table
                          /\ next_label_id' = get_next_label_id(next_label_id)
                          /\ layout' = create_chain(layout, current_insert, ForBlocks(next_id))
                          /\ log' = log \o init.events
                                        \o CreatedAll("for", next_id, ForBlocks(next_id))
                                        \o <<Emitted("for", next_id, builder, Br(cond_block))>>
                                        \o loop_condition("for", next_id, cond, cond_block,
                                                          body_block, end_block)
                          /\ builder' = body_block
                          /\ break_continue_targets' =
                                 Append(break_continue_targets,
                                        <<end_block, ForContinueTarget(cond_block, inc_block)>>)
                          /\ frames' = Append(frames, Frame("for", next_id, n, "body", n >= 1))
                          /\ returned' = NoReturn
                          /\ lowered' = lowered + 1
                          /\ cond_node' = cond
                          /\ UNCHANGED <<current_insert_block, result,
                                         input, current, called, out, lvars>>
    /\ uses_pool("ForEnter")

ForExit ==
    /\ result = Running
    /\ frames # <<>>
    /\ Top.kind = "for"
    /\ \E kind \in (IF Top.arity = 4 THEN {"Assignment"} ELSE {"None"}),
          name \in (IF Top.arity = 4 THEN Names ELSE {""}) :
          LET cond_block == Block("for_cond", Top.id)
              inc_block == Block("for_inc", Top.id)
              end_block == Block("for_end", Top.id)
              inc == header_statement(inc_block, kind, name, "expression")
          IN /\ log' = log \o <<Emitted("for", Top.id, builder, Br(inc_block))>>
                           \o inc.events
                           \o (IF inc.ok THEN <<Emitted("for", Top.id, inc_block, Br(cond_block))>>
                               ELSE <<>>)
             /\ store_table' = inc.table
             /\ builder' = IF inc.ok THEN end_block ELSE inc_block
             /\ frames' = IF inc.ok THEN Pop(frames) ELSE <<>>
             /\ result' = IF inc.ok THEN result ELSE DevError(inc.message)
             /\ returned' = Returned("for", Top.id, Top.arity, name, inc.ok)
    /\ break_continue_targets' = pop_target(break_continue_targets)
    /\ UNCHANGED <<layout, current_insert_block, next_label_id, lowered,
                   input, current, called, out, lvars>>
    /\ uses_pool("ForExit")
    /\ cond_node' = NoCond

(* A boolean literal is the branch condition as it is; anything else is    *)
(* compared with zero and negated.                                         *)
bool_cond(cond) ==
    IF cond.node = "Literal" /\ cond.kind \in {"true", "false"} THEN <<>> ELSE Truthiness

(* matches!(then_result, Some(Tag::Value(_)))                              *)
has_return_always(then_result) == TRUE
has_return(then_result) == then_result = "Value"

(* What routing a body returns: generate_block_exp returns Ok(None).       *)
generate_block_exp == "None"

IfEnter ==
    /\ CanNest
    /\ \E n \in Arities({2, 3}, 3) :
          IF InvalidIfNode(n)
          THEN Reject("if", n, "Invalid if node")
          ELSE \E cond \in Conditions :
                  LET next_id == next_label_id
                      then_block == Block("then", next_id)
                      else_block == Block("else", next_id)
                      merge_block == Block("merge", next_id)
                      new == <<then_block, else_block, merge_block>>
                  IN /\ next_label_id' = get_next_label_id(next_label_id)
                     /\ layout' = create_chain(layout, current_insert, new)
                     /\ current_insert_block' = merge_block
                     /\ log' = log \o CreatedAll("if", next_id, new)
                                   \o EmittedAll("condition", next_id, builder,
                                                 generate_condition_ir(cond))
                                   \o EmittedAll("if", next_id, builder,
                                                 bool_cond(cond)
                                                 \o <<CondBr(IF bool_cond(cond) = <<>> THEN "literal"
                                                             ELSE "nottmp",
                                                             then_block, else_block)>>)
                     /\ builder' = then_block
                     /\ frames' = Append(frames, Frame("if", next_id, n, "then", TRUE))
                     /\ returned' = NoReturn
                     /\ lowered' = lowered + 1
                     /\ cond_node' = cond
                     /\ UNCHANGED <<store_table, break_continue_targets, result,
                                    input, current, called, out, lvars>>
    /\ uses_pool("IfEnter")

(* The then body has been lowered: branch to merge, then the else side.    *)
IfThenExit ==
    /\ result = Running
    /\ frames # <<>>
    /\ Top.kind = "if" /\ Top.phase = "then"
    /\ LET else_block == Block("else", Top.id)
           merge_block == Block("merge", Top.id)
           then_branch == IF ~has_return(generate_block_exp)
                          THEN <<Emitted("if", Top.id, builder, Br(merge_block))>> ELSE <<>>
       IN IF Top.arity = 3
          THEN /\ log' = log \o then_branch
               /\ builder' = else_block
               /\ frames' = [frames EXCEPT ![Len(frames)].phase = "else"]
               /\ returned' = NoReturn
          ELSE /\ log' = log \o then_branch
                             \o <<Emitted("if", Top.id, else_block, Br(merge_block))>>
               /\ builder' = merge_block
               /\ frames' = Pop(frames)
               /\ returned' = Returned("if", Top.id, Top.arity, "", TRUE)
    /\ UNCHANGED <<layout, current_insert_block, next_label_id, store_table,
                   break_continue_targets, result, lowered, input, current, called, out, lvars>>
    /\ uses_pool("IfThenExit")
    /\ cond_node' = NoCond

IfElseExit ==
    /\ result = Running
    /\ frames # <<>>
    /\ Top.kind = "if" /\ Top.phase = "else"
    /\ LET merge_block == Block("merge", Top.id) IN
          /\ log' = IF ~has_return(generate_block_exp)
                    THEN Append(log, Emitted("if", Top.id, builder, Br(merge_block)))
                    ELSE log
          /\ builder' = merge_block
    /\ frames' = Pop(frames)
    /\ returned' = Returned("if", Top.id, Top.arity, "", TRUE)
    /\ UNCHANGED <<layout, current_insert_block, next_label_id, store_table,
                   break_continue_targets, result, lowered, input, current, called, out, lvars>>
    /\ uses_pool("IfElseExit")
    /\ cond_node' = NoCond

Init ==
    /\ IInit
    /\ input = <<>> /\ current = 0 /\ called = "new" /\ out = NoResult
    /\ initialization_node = NoNode /\ ir = NoLowering

Next ==
    \/ FunctionDeclaration
    \/ FunctionReturn
    \/ Assignment
    \/ Initialization
    \/ Break
    \/ Continue
    \/ ReturnStatement
    \/ WhileEnter
    \/ WhileExit
    \/ DoWhileEnter
    \/ DoWhileExit
    \/ ForEnter
    \/ ForExit
    \/ IfEnter
    \/ IfThenExit
    \/ IfElseExit

Spec == Init /\ [][Next]_vars

-----------------------------------------------------------------------------
(* ParserSpec: a parser is constructed over a token vector (Parser::new)   *)
(* and one of its public methods is applied to it.                         *)

MaxOperands == 3

Digits == <<"1", "2", "3", "4", "5", "6">>
Letters == <<"a", "b", "c", "d", "e", "f">>

(* The binary operator tokens of the lexer.                                *)
OperatorTokens ==
    {Tok("PLUS"), Tok("DASH"), Tok("ASTERISK"), Tok("FSLASH"), Tok("PERCENT"),
     Tok("LESSTHAN"), Tok("GREATERTHAN"), Tok("LESSTHANEQUAL"), Tok("GREATERTHANEQUAL"),
     Tok("EQUALEQUAL"), Tok("NOTEQUAL")}

(* The token vector  x1 op1 x2 ... xn  of the given operand kinds and      *)
(* operator tokens.                                                        *)
RECURSIVE Flat(_, _, _)
Flat(n, kinds, ops) ==
    LET x == IF kinds[n] = "NUMBER" THEN NUMBER(Digits[n]) ELSE IDENTIFIER(Letters[n]) IN
    IF n = 1 THEN <<x>> ELSE Flat(n - 1, kinds, ops) \o <<ops[n - 1], x>>

(* The same with one pair of operands parenthesised, or with a parenthesis *)
(* opened and never closed, or with the whole expression parenthesised as  *)
(* the condition of a control flow statement is, or assigned to x.         *)
Grouping ==
    {"flat", "first", "first open", "last", "last open", "whole", "whole first", "assigned"}

Grouped(s, g) ==
    CASE g = "first" ->
            <<Tok("LPAREN")>> \o SubSeq(s, 1, 3) \o <<Tok("RPAREN")>> \o SubSeq(s, 4, Len(s))
      [] g = "first open" -> <<Tok("LPAREN")>> \o s
      [] g = "last" ->
            SubSeq(s, 1, Len(s) - 3) \o <<Tok("LPAREN")>> \o SubSeq(s, Len(s) - 2, Len(s))
                \o <<Tok("RPAREN")>>
      [] g = "last open" ->
            SubSeq(s, 1, Len(s) - 3) \o <<Tok("LPAREN")>> \o SubSeq(s, Len(s) - 2, Len(s))
      [] g = "assigned" -> <<IDENTIFIER("x"), Tok("EQUAL")>> \o s
      [] g = "whole" -> <<Tok("LPAREN")>> \o s \o <<Tok("RPAREN")>>
      [] g = "whole first" ->
            <<Tok("LPAREN"), Tok("LPAREN")>> \o SubSeq(s, 1, 3) \o <<Tok("RPAREN")>>
                \o SubSeq(s, 4, Len(s)) \o <<Tok("RPAREN")>>
      [] OTHER -> s

(* for (int i = 0; i < 3; i = i + 1) { }                                   *)
ForHeader ==
    <<Tok("FOR"), Tok("LPAREN"), Tok("TINTEGER"), IDENTIFIER("i"), Tok("EQUAL"), NUMBER("0"),
      Tok("SEMICOLON"), IDENTIFIER("i"), Tok("LESSTHAN"), NUMBER("3"), Tok("SEMICOLON"),
      IDENTIFIER("i"), Tok("EQUAL"), IDENTIFIER("i"), Tok("PLUS"), NUMBER("1"), Tok("RPAREN")>>

ForExample == ForHeader \o <<Tok("LBRACKET"), Tok("RBRACKET")>>

(* Loop bodies and statements drawn for the statement parsers.             *)
Bodies ==
    {<<Tok("LBRACKET"), Tok("RBRACKET")>>,
     <<Tok("LBRACKET"), Tok("SEMICOLON"), Tok("RBRACKET")>>,
     <<Tok("LBRACKET"), Tok("BREAK"), Tok("SEMICOLON"), Tok("RBRACKET")>>,
     <<Tok("LBRACKET"), Tok("CONTINUE"), Tok("SEMICOLON"), Tok("RBRACKET")>>,
     <<Tok("LBRACKET"), IDENTIFIER("i"), Tok("EQUAL"), NUMBER("1"), Tok("SEMICOLON"),
       Tok("RBRACKET")>>,
     <<Tok("LBRACKET"), Tok("TINTEGER"), IDENTIFIER("x"), Tok("EQUAL"), NUMBER("1"),
       Tok("SEMICOLON"), Tok("RETURN"), IDENTIFIER("x"), Tok("SEMICOLON"), Tok("RBRACKET")>>,
     <<Tok("LBRACKET"), Tok("LBRACKET"), Tok("RBRACKET"), Tok("RBRACKET")>>,
     <<Tok("LBRACKET"), Tok("BREAK"), Tok("SEMICOLON")>>,
     <<Tok("LBRACKET")>>,
     <<Tok("SEMICOLON")>>,
     <<>>}

(* Tokens put in place of one token of the header.                         *)
Substitutes ==
    {Tok("SEMICOLON"), Tok("PLUS"), Tok("EQUAL"), Tok("LESSTHAN"), Tok("GREATERTHAN"),
     Tok("LESSTHANEQUAL"), Tok("LPAREN"), Tok("RPAREN"), Tok("TFLOAT"),
     NUMBER("7"), IDENTIFIER("j")}

ForInputs ==
    {ForHeader \o b : b \in Bodies}
    \cup {[ForExample EXCEPT ![p] = x] : p \in 1..Len(ForExample), x \in Substitutes}
    \cup {SubSeq(ForExample, 1, p - 1) \o SubSeq(ForExample, p + 1, Len(ForExample))
              : p \in 1..Len(ForExample)}
    \cup {SubSeq(ForExample, 1, p) : p \in 0..Len(ForExample)}

(* Statements: every token vector of up to MaxTokens tokens of these.      *)
MaxTokens == 4

StatementTokens ==
    {Tok("LBRACKET"), Tok("RBRACKET"), Tok("SEMICOLON"), Tok("EOF"), Tok("BREAK"),
     NUMBER("1"), IDENTIFIER("a")}

(* switch (a) {  followed by up to MaxTokens tokens of these.              *)
SwitchHeader ==
    <<Tok("SWITCH"), Tok("LPAREN"), IDENTIFIER("a"), Tok("RPAREN"), Tok("LBRACKET")>>

SwitchTokens ==
    {Tok("CASE"), Tok("DEFAULT"), Tok("COLON"), Tok("RBRACKET"), Tok("SEMICOLON"),
     Tok("EOF"), NUMBER("1")}

PInit ==
    /\ IInit
    /\ initialization_node = NoNode /\ ir = NoLowering
    /\ \/ \E n \in 1..MaxOperands :
            \E kinds \in [1..n -> {"NUMBER", "IDENTIFIER"}] :
                \E ops \in [1..(n - 1) -> OperatorTokens] :
                    \E g \in (IF n = 1 THEN {"flat", "whole", "assigned"} ELSE Grouping) :
                        input = Grouped(Flat(n, kinds, ops), g)
       \/ input \in ForInputs
       \/ \E n \in 0..MaxTokens :
            \/ \E s \in [1..n -> StatementTokens] : input = s
            \/ \E s \in [1..n -> SwitchTokens] : input = SwitchHeader \o s
    /\ current = 0
    /\ called = "new"
    /\ out = NoResult

(* One call of a parser method on the freshly constructed parser.          *)
Call(method, r) ==
    /\ called = "new"
    /\ called' = method
    /\ out' = r
    /\ current' = r.pos
    /\ UNCHANGED input
    /\ UNCHANGED ivars
    /\ UNCHANGED lvars

ParseBinaryExpression == Call("parse_binary_expression", parse_binary_expression(current))
ParseCondition == Call("parse_condition", self("parse_condition", <<current>>))
ParseForLoop == Call("parse_for_loop", self("parse_for_loop", <<current>>))
ParseBlock == Call("parse_block", self("parse_block", <<current>>))
ParseRouter == Call("parse_router", self("parse_router", <<current>>))
Parse == Call("parse", parse)

PNext ==
    \/ ParseBinaryExpression
    \/ ParseCondition
    \/ ParseForLoop
    \/ ParseBlock
    \/ ParseRouter
    \/ Parse

ParserSpec == PInit /\ [][PNext]_vars

-----------------------------------------------------------------------------
(* InitializationSpec: generate_initialization_ir (ir/src/statement.rs) is *)
(* applied to an Initialization node, either one handed to it directly or  *)
(* the one parse_initialization returned for a declaration.                *)

ExpectedChildren == "Invalid variable initialization node: expected 2 or 3 children"

(* int_type(64), float_type, boolean_type, void_type; any other DataType   *)
(* is unsupported.                                                         *)
type_tag_of(data_type) ==
    CASE data_type = "Integer" -> "i64"
      [] data_type = "Float" -> "float"
      [] data_type = "Boolean" -> "i1"
      [] data_type = "Void" -> "void"
      [] OTHER -> "unsupported"

(* A helper that finds no variable in any value.                           *)
get_variable_node_never(n) == NoNode

(* fn get_variable_node_from_assigned_value: the Variable node the value   *)
(* is, or wraps in AssignedValue nodes of one child each.                  *)
RECURSIVE get_variable_node_from_assigned_value(_)
get_variable_node_from_assigned_value(n) ==
    CASE n.type = "AssignedValue" ->
            IF Len(n.children) = 1
            THEN LET child == n.children[1] IN
                 CASE child.type = "Variable" -> child
                   [] child.type = "AssignedValue" -> get_variable_node_from_assigned_value(child)
                   [] OTHER -> NoNode
            ELSE NoNode
      [] n.type = "Variable" -> n
      [] OTHER -> NoNode

(* The special case: the load from the source, then the alloca of the new  *)
(* variable with the i64 type made for the load, then the store.           *)
initialization_from_variable(var_name, var_node, table) ==
    IF var_node.children = <<>> THEN Panic
    ELSE IF var_node.children[1].type # "Identifier"
    THEN Lowering(FALSE, "Expected identifier in variable node", <<>>)
    ELSE LET src_var_name == var_node.children[1].val IN
         IF src_var_name \notin table
         THEN Lowering(FALSE, "Failed to load variable", <<>>)
         ELSE Lowering(TRUE, "",
                       <<Ev("load", src_var_name, "i64"), Ev("alloca", var_name, "i64"),
                         Ev("store", var_name, "")>>)

(* The default case: alloca, then the initial value, then the store.       *)
initialization_default(var_name, type_tag, value) ==
    Lowering(TRUE, "",
             <<Ev("alloca", var_name, type_tag)>>
                 \o (IF value = NoNode THEN <<>>
                     ELSE <<Ev("ir_router", value.type, ""), Ev("store", var_name, "")>>))

initialization_with(var_name, type_tag, value, table) ==
    IF type_tag = "unsupported" THEN Lowering(FALSE, "Unsupported data type", <<>>)
    ELSE LET var_node == IF value = NoNode THEN NoNode
                         ELSE get_variable_node_from_assigned_value(value)
         IN IF var_node # NoNode
            THEN initialization_from_variable(var_name, var_node, table)
            ELSE initialization_default(var_name, type_tag, value)

(* if children.len() < 2 || children.len() > 3 { return Err }              *)
InvalidInitializationNode(n) == n < 2 \/ n > 3

generate_initialization_ir_node(node, table) ==
    LET children == node.children IN
    IF InvalidInitializationNode(Len(children)) THEN Lowering(FALSE, ExpectedChildren, <<>>)
    ELSE IF children[1].type \notin {"Identifier", "Variable"}
    THEN Lowering(FALSE, "Expected identifier or variable node", <<>>)
    ELSE IF children[1].type = "Variable" /\ children[1].children = <<>> THEN Panic
    ELSE IF children[1].type = "Variable" /\ children[1].children[1].type # "Identifier"
    THEN Lowering(FALSE, "Expected identifier in variable node", <<>>)
    ELSE LET var_name == IF children[1].type = "Identifier" THEN children[1].val
                         ELSE children[1].children[1].val
         IN IF Len(children) = 3
            THEN initialization_with(var_name,
                                     IF children[2].type = "Type"
                                     THEN type_tag_of(children[2].val) ELSE "i64",
                                     children[3], table)
            ELSE IF children[2].type = "Type"
                 THEN initialization_with(var_name, type_tag_of(children[2].val), NoNode, table)
                 ELSE initialization_with(var_name, "i64", children[2], table)

(* The nodes handed to the handler.                                        *)
DataTypes == {"Integer", "Float", "Boolean", "Void", "Char"}

VariableOf(name, data_type) ==
    Node("Variable", "", <<Leaf("Identifier", name), Leaf("Type", data_type)>>)

Reference == Node("Variable", "", <<Leaf("Identifier", "y")>>)

Assignees ==
    {Leaf("Identifier", "x"), Leaf("Literal", "1")}
        \cup {VariableOf("x", data_type) : data_type \in {"Integer", "Float"}}

InitialValues ==
    {Leaf("Literal", "5"), Leaf("Identifier", "y"), Reference,
     Node("AssignedValue", "", <<Leaf("Literal", "5")>>),
     Node("AssignedValue", "", <<Leaf("Identifier", "y")>>),
     Node("AssignedValue", "", <<Reference>>),
     Node("AssignedValue", "", <<Node("AssignedValue", "", <<Reference>>)>>),
     Node("AssignedValue", "", <<Reference, Leaf("Literal", "5")>>)}

InitializationNodes ==
    {Node("Initialization", "", children) :
        children \in
            {<<a>> : a \in Assignees}
                \cup {<<a, Leaf("Type", t)>> : a \in Assignees, t \in DataTypes}
                \cup {<<a, v>> : a \in Assignees, v \in InitialValues}
                \cup {<<a, Leaf("Type", t), v>> :
                         a \in Assignees, t \in DataTypes, v \in InitialValues}
                \cup {<<a, Leaf("Type", "Integer"), v, v>> : a \in Assignees, v \in InitialValues}}

(* The declarations handed to parse_initialization:  type x  followed by   *)
(* nothing, by ; or by = and a value.                                      *)
TypeTokens == {Tok("TINTEGER"), Tok("TFLOAT"), Tok("TBOOLEAN"), Tok("TVOID"), Tok("TCHAR")}

Declarators ==
    {<<>>, <<Tok("SEMICOLON")>>, <<Tok("EQUAL"), Tok("SEMICOLON")>>,
     <<Tok("EQUAL"), NUMBER("5"), Tok("SEMICOLON")>>,
     <<Tok("EQUAL"), IDENTIFIER("y"), Tok("SEMICOLON")>>,
     <<Tok("EQUAL"), Tok("DASH"), NUMBER("5"), Tok("SEMICOLON")>>}

Declarations == {<<t, IDENTIFIER("x")>> \o d : t \in TypeTokens, d \in Declarators}

LInit ==
    /\ frames = <<>> /\ layout = <<>> /\ log = <<>>
    /\ builder = NoBlock /\ current_insert_block = NoBlock
    /\ next_label_id = 0
    /\ store_table \in {{}, {"y"}}
    /\ break_continue_targets = <<>>
    /\ result = Fresh /\ returned = NoReturn /\ lowered = 0
    /\ resource_pools = Free /\ cond_node = NoCond
    /\ current = 0 /\ called = "new" /\ out = NoResult
    /\ ir = NoLowering
    /\ \/ input \in Declarations /\ initialization_node = NoNode
       \/ input = <<>> /\ initialization_node \in InitializationNodes

(* parser.parse_initialization(): the node it returns is the one lowered.  *)
ParseInitialization ==
    /\ called = "new"
    /\ input # <<>>
    /\ LET r == self("parse_initialization", <<current>>) IN
          /\ called' = "parse_initialization"
          /\ out' = r
          /\ current' = r.pos
          /\ initialization_node' = r.node
    /\ UNCHANGED <<input, ir>>
    /\ UNCHANGED ivars

GenerateInitializationIr ==
    /\ initialization_node # NoNode
    /\ ir = NoLowering
    /\ ir' = generate_initialization_ir_node(initialization_node, store_table)
    /\ UNCHANGED <<input, current, called, out, initialization_node>>
    /\ UNCHANGED ivars

LNext ==
    \/ ParseInitialization
    \/ GenerateInitializationIr

InitializationSpec == LInit /\ [][LNext]_vars

-----------------------------------------------------------------------------
(* Properties of the expression parser and of parse_for_loop.              *)

IsOperand(tok) == tok.t \in {"NUMBER", "IDENTIFIER"}

(* The leaf an operand token is expected to become.                        *)
OperandLeaf(tok) ==
    IF tok.t = "NUMBER" THEN Leaf("Literal", tok.v) ELSE Leaf("Identifier", tok.v)

(* The documented text and precedence tier of an operator token.           *)
Symbol(tok) ==
    CASE tok.t = "PLUS" -> "+" [] tok.t = "DASH" -> "-" [] tok.t = "ASTERISK" -> "*"
      [] tok.t = "FSLASH" -> "/" [] tok.t = "PERCENT" -> "%" [] tok.t = "LESSTHAN" -> "<"
      [] tok.t = "GREATERTHAN" -> ">" [] tok.t = "LESSTHANEQUAL" -> "<="
      [] tok.t = "GREATERTHANEQUAL" -> ">=" [] tok.t = "EQUALEQUAL" -> "=="
      [] tok.t = "NOTEQUAL" -> "!=" [] OTHER -> "?"

Tier(tok) ==
    CASE tok.t \in {"ASTERISK", "FSLASH", "PERCENT"} -> 3
      [] tok.t \in {"PLUS", "DASH"} -> 2
      [] tok.t \in {"LESSTHAN", "GREATERTHAN", "LESSTHANEQUAL", "GREATERTHANEQUAL"} -> 1
      [] tok.t \in {"EQUALEQUAL", "NOTEQUAL"} -> 0
      [] OTHER -> -1

(* The operator tokens the precedence loop recognises.                     *)
Recognised(tok) == OperatorOf(tok) # ""

Tree(left, op, right) ==
    Node("BinaryExpression", "", <<left, Leaf("Operator", Symbol(op)), right>>)

(* s[i], s[i+1], ..., s[i+4] is  a op1 b op2 c  with recognised operators. *)
Triple(s, i) ==
    /\ IsOperand(s[i]) /\ Recognised(s[i + 1]) /\ IsOperand(s[i + 2])
    /\ Recognised(s[i + 3]) /\ IsOperand(s[i + 4])

LeftNested(s, i) ==
    Tree(Tree(OperandLeaf(s[i]), s[i + 1], OperandLeaf(s[i + 2])), s[i + 3], OperandLeaf(s[i + 4]))

RightNested(s, i) ==
    Tree(OperandLeaf(s[i]), s[i + 1], Tree(OperandLeaf(s[i + 2]), s[i + 3], OperandLeaf(s[i + 4])))

One == NUMBER("1")
Two == NUMBER("2")
Three == NUMBER("3")

RECURSIVE BinaryShape(_)
BinaryShape(n) ==
    /\ n.type = "BinaryExpression" =>
          /\ Len(n.children) = 3
          /\ n.children[1].type # "Operator"
          /\ n.children[2].type = "Operator"
          /\ n.children[3].type # "Operator"
    /\ \A i \in 1..Len(n.children) : BinaryShape(n.children[i])

HasToken(s, t) == \E i \in 1..Len(s) : s[i] = Tok(t)

(* C3: parentheses override precedence and leave no node: ( a op1 b ) op2 c *)
(* parses to [[a op1 b] op2 c] and a op1 ( b op2 c ) to [a op1 [b op2 c]],  *)
(* all seven tokens consumed; (1 + 2) * 3 is [[1 + 2] * 3]; and an opened   *)
(* parenthesis that is never closed gives a syntax error and no tree.       *)
C3_Parenthesised ==
    called = "parse_binary_expression" =>
    /\ (/\ Len(input) = 7 /\ input[1] = Tok("LPAREN") /\ input[5] = Tok("RPAREN")
        /\ Triple(SubSeq(input, 2, 4) \o SubSeq(input, 6, 7), 1))
       => out = Ok(LeftNested(SubSeq(input, 2, 4) \o SubSeq(input, 6, 7), 1), 7)
    /\ (/\ Len(input) = 7 /\ input[3] = Tok("LPAREN") /\ input[7] = Tok("RPAREN")
        /\ Triple(SubSeq(input, 1, 2) \o SubSeq(input, 4, 6), 1))
       => out = Ok(RightNested(SubSeq(input, 1, 2) \o SubSeq(input, 4, 6), 1), 7)
    /\ (input = <<Tok("LPAREN"), One, Tok("PLUS"), Two, Tok("RPAREN"), Tok("ASTERISK"), Three>>)
       => out.node = Tree(Tree(OperandLeaf(One), Tok("PLUS"), OperandLeaf(Two)),
                          Tok("ASTERISK"), OperandLeaf(Three))
    /\ (/\ ~HasToken(input, "RPAREN")
        /\ \/ Len(input) >= 1 /\ input[1] = Tok("LPAREN")
           \/ Len(input) >= 3 /\ IsOperand(input[1]) /\ Recognised(input[2])
                 /\ input[3] = Tok("LPAREN"))
       => (~out.ok /\ ~out.some /\ Len(out.errs) = 1)

(* (1 + 2) * 3 has been parsed, the cursor past all seven tokens.          *)
C3_Witness ==
    /\ called = "parse_binary_expression"
    /\ input = <<Tok("LPAREN"), One, Tok("PLUS"), Two, Tok("RPAREN"), Tok("ASTERISK"), Three>>
    /\ out.ok /\ current = 7

(* The documented shape of a ForLoop node.                                 *)
ForLoopShape(n) ==
    /\ Len(n.children) = 4
    /\ n.children[1].type = "LoopInitializer"
    /\ Len(n.children[1].children) = 1
    /\ n.children[1].children[1].type = "Assignment"
    /\ n.children[2].type = "Condition"
    /\ Len(n.children[2].children) = 1
    /\ n.children[2].children[1].type = "BinaryExpression"
    /\ n.children[3].type = "LoopIncrement"
    /\ Len(n.children[3].children) = 1
    /\ n.children[3].children[1].type = "Assignment"
    /\ n.children[4].type = "BlockExpression"

RECURSIVE ForLoopsShaped(_)
ForLoopsShaped(n) ==
    /\ n.type = "ForLoop" => ForLoopShape(n)
    /\ \A i \in 1..Len(n.children) : ForLoopsShaped(n.children[i])

(* C8: whenever parse_for_loop succeeds it returns a ForLoop node with     *)
(* exactly the four children LoopInitializer[Assignment],                  *)
(* Condition[BinaryExpression], LoopIncrement[Assignment], BlockExpression *)
(* (and so is every ForLoop node any parser method returns); and           *)
(* for (int i = 0; i < 3; i = i + 1) { }  is accepted.                     *)
C8_ForLoopShape ==
    /\ (called = "parse_for_loop" /\ out.ok)
       => (out.some /\ out.node.type = "ForLoop" /\ ForLoopShape(out.node))
    /\ (called # "new" /\ out.ok /\ out.some) => ForLoopsShaped(out.node)
    /\ (called = "parse_for_loop" /\ input = ForExample)
       => (out.ok /\ out.some /\ out.pos = Len(ForExample))

(* The example loop has been parsed to a ForLoop node.                     *)
C8_Witness ==
    /\ called = "parse_for_loop"
    /\ input = ForExample
    /\ out.ok /\ out.node.type = "ForLoop" /\ Len(out.node.children) = 4

-----------------------------------------------------------------------------
(* Claims about the lowering (Spec).  They are properties of its steps:    *)
(* what a handler appends to log and where it leaves the builder, given    *)
(* the state it was called in.                                             *)

LoopKinds == {"while", "do_while", "for"}
Constructs == LoopKinds \cup {"if"}

(* What the step appended to log.                                          *)
Appended == SubSeq(log', Len(log) + 1, Len(log'))

(* The step routed a node to a handler that returned in the same step.     *)
Handled(handler) == lowered' = lowered + 1 /\ returned'.handler = handler

(* The step routed a node of this kind and stopped before its body.        *)
Entered(kind) == Len(frames') = Len(frames) + 1 /\ frames'[Len(frames')].kind = kind
Inner == frames'[Len(frames')]

(* The step is the rest of the handler of the construct on top of frames.  *)
Exited(kind) == frames # <<>> /\ Top.kind = kind /\ frames' = Pop(frames)

CodeIn(l, block) ==
    LET at == SelectSeq(l, LAMBDA e : e.ev = "instr" /\ e.block = block)
    IN [i \in 1..Len(at) |-> at[i].ins]

Before(blocks, a, b) ==
    \E i, j \in DOMAIN blocks : i < j /\ blocks[i] = a /\ blocks[j] = b

(* No block has been created since the construct with this label id        *)
(* created its own.                                                        *)
NoBlockSince(id) ==
    \A i, j \in DOMAIN log :
        (i < j /\ log[i].ev = "block" /\ log[i].id = id) => (log[j].ev = "block" => log[j].id = id)

EnclosedByLoop == \E i \in DOMAIN frames : frames[i].kind \in LoopKinds

InnermostLoop ==
    LET loops == {i \in DOMAIN frames : frames[i].kind \in LoopKinds}
    IN frames[CHOOSE i \in loops : \A j \in loops : j <= i]

EndBlock(f) ==
    CASE f.kind = "while" -> Block("while_end", f.id)
      [] f.kind = "do_while" -> Block("do_end", f.id)
      [] f.kind = "for" -> Block("for_end", f.id)

ContinueBlock(f) ==
    CASE f.kind = "while" -> Block("while_cond", f.id)
      [] f.kind = "do_while" -> Block("do_cond", f.id)
      [] f.kind = "for" -> Block("for_inc", f.id)

(* C4: inside any nesting of loops a break branches to the end block of    *)
(* the innermost enclosing loop and a continue to its continue target:     *)
(* the cond block of a while or do-while, the inc block of a for (so a     *)
(* continue in a for inside a while goes to the for's inc block).          *)
C4_InnermostLoopTargets ==
    [][ /\ (Handled("break") /\ EnclosedByLoop) =>
              /\ returned'.ok
              /\ Appended = <<Emitted("break", -1, builder, Br(EndBlock(InnermostLoop)))>>
        /\ (Handled("continue") /\ EnclosedByLoop) =>
              /\ returned'.ok
              /\ Appended = <<Emitted("continue", -1, builder, Br(ContinueBlock(InnermostLoop)))>>
      ]_vars

(* A continue has just been lowered in a for nested in a while.            *)
C4_Witness ==
    /\ returned.handler = "continue" /\ returned.ok
    /\ Len(frames) = 3
    /\ frames[2].kind = "while" /\ frames[3].kind = "for"
    /\ log[Len(log)].ins = Br(Block("for_inc", frames[3].id))
    /\ log[Len(log)].ins # Br(Block("while_cond", frames[2].id))

(* C5: a do-while first branches from the block current at entry into the  *)
(* body block; the body block is laid out before the cond block; nothing   *)
(* is emitted in the cond block until the body has been lowered; the cond  *)
(* block then ends with the conditional branch to body (true) and end      *)
(* (false).                                                                *)
C5_DoWhileBodyFirst ==
    [][ /\ Entered("do_while") =>
              LET body_block == Block("do_body", Inner.id)
                  cond_block == Block("do_cond", Inner.id)
                  end_block == Block("do_end", Inner.id)
              IN /\ Appended = CreatedAll("do_while", Inner.id,
                                          <<body_block, cond_block, end_block>>)
                                   \o <<Emitted("do_while", Inner.id, builder, Br(body_block))>>
                 /\ Before(layout', body_block, cond_block)
                 /\ builder' = body_block
                 /\ CodeIn(log', cond_block) = <<>>
        /\ Exited("do_while") =>
              LET body_block == Block("do_body", Top.id)
                  cond_block == Block("do_cond", Top.id)
                  end_block == Block("do_end", Top.id)
              IN /\ Before(layout', body_block, cond_block)
                 /\ CodeIn(log, cond_block) = <<>>
                 /\ \A i \in 2..Len(Appended) : Appended[i].block = cond_block
                 /\ Appended[Len(Appended)] =
                        Emitted("do_while", Top.id, cond_block,
                                CondBr("nottmp", body_block, end_block))
      ]_vars

(* A do-while of body and condition has been lowered, its body holding a   *)
(* statement that emitted an instruction.                                  *)
C5_Witness ==
    /\ returned.handler = "do_while" /\ returned.arity = 2 /\ returned.ok
    /\ CodeIn(log, Block("do_body", returned.id)) # <<>>
    /\ builder = Block("do_end", returned.id)
    /\ log[Len(log)].ins.op = "condbr"

(* C6 as stated: an if without else ends its then block with the branch to *)
(* merge, leaves only a branch to merge in the else block, and returns     *)
(* with the builder at the merge block.                                    *)
C6_ThenBlockEndsWithBranch ==
    [][ (Exited("if") /\ Top.arity = 2) =>
            LET then_block == Block("then", Top.id)
                else_block == Block("else", Top.id)
                merge_block == Block("merge", Top.id)
                then_code == CodeIn(log', then_block)
            IN /\ {then_block, else_block, merge_block} \subseteq {layout'[i] : i \in DOMAIN layout'}
               /\ then_code # <<>>
               /\ then_code[Len(then_code)] = Br(merge_block)
               /\ CodeIn(log', else_block) = <<Br(merge_block)>>
               /\ builder' = merge_block
      ]_vars

(* C6: an if without else (its then child a block) creates the then, else  *)
(* and merge blocks and lowers the then body from the then block; the      *)
(* branch to merge is emitted where that lowering left the builder, which  *)
(* is the then block when the body created no block; the else block holds  *)
(* only a branch to merge; the builder is left at the merge block.         *)
C6_IfWithoutElse ==
    [][ /\ (Entered("if") /\ Inner.arity = 2) =>
              /\ SubSeq(Appended, 1, 3) =
                     CreatedAll("if", Inner.id, <<Block("then", Inner.id),
                                                  Block("else", Inner.id),
                                                  Block("merge", Inner.id)>>)
              /\ builder' = Block("then", Inner.id)
        /\ (Exited("if") /\ Top.arity = 2) =>
              LET then_block == Block("then", Top.id)
                  else_block == Block("else", Top.id)
                  merge_block == Block("merge", Top.id)
              IN /\ Appended = <<Emitted("if", Top.id, builder, Br(merge_block)),
                                 Emitted("if", Top.id, else_block, Br(merge_block))>>
                 /\ NoBlockSince(Top.id) => builder = then_block
                 /\ CodeIn(log', else_block) = <<Br(merge_block)>>
                 /\ builder' = merge_block
      ]_vars

(* An if without else has been lowered whose then body held a loop: the    *)
(* then block does not end with the branch to merge.                       *)
C6_Witness ==
    /\ returned.handler = "if" /\ returned.arity = 2 /\ returned.ok
    /\ builder = Block("merge", returned.id)
    /\ CodeIn(log, Block("else", returned.id)) = <<Br(Block("merge", returned.id))>>
    /\ LET then_code == CodeIn(log, Block("then", returned.id))
       IN then_code # <<>> /\ then_code[Len(then_code)] # Br(Block("merge", returned.id))

(* C7: an Assignment to a name without storage returns a developer error,  *)
(* emits no store and records no storage for the name; no assignment,      *)
(* that of a loop header included, emits a store for such a name.          *)
C7_AssignmentNeedsStorage ==
    [][ \A name \in Names :
          /\ (Handled("assignment") /\ returned'.name = name /\ ~search_store_table(name)) =>
                /\ ~returned'.ok
                /\ result'.kind = "DevError"
                /\ \A i \in DOMAIN Appended : Appended[i].ins.op # "store"
                /\ store_table' = store_table
          \* the same for the assignments of a loop header
          /\ ~search_store_table(name) =>
                \A i \in DOMAIN Appended :
                    Appended[i] # Emitted("assignment", -1, Appended[i].block, Store(name))
      ]_vars

(* An Assignment to an undeclared name has just failed, after its value    *)
(* was lowered.                                                            *)
C7_Witness ==
    /\ returned.handler = "assignment" /\ ~returned.ok
    /\ returned.name \notin store_table
    /\ result = DevError("Failed to reassign variable")
    /\ log[Len(log)] = Emitted("value", -1, builder, Value("tmp"))

(* C9: a for loop of four children lowers the initializer in the block     *)
(* current at entry before any of its blocks exists; creates cond, body,   *)
(* inc, end under one fresh label id; branches to cond; emits the          *)
(* condition and the conditional branch to body/end in cond; lowers the    *)
(* body starting in the body block and follows it with a branch to inc;    *)
(* lowers the increment in inc, followed by the branch back to cond; and   *)
(* leaves the builder at end.                                              *)
C9_ForOrder ==
    [][ /\ (Entered("for") /\ Inner.arity = 4) =>
              LET cond_block == Block("for_cond", Inner.id)
                  body_block == Block("for_body", Inner.id)
                  inc_block == Block("for_inc", Inner.id)
                  end_block == Block("for_end", Inner.id)
                  new == <<cond_block, body_block, inc_block, end_block>>
              IN /\ \A i \in DOMAIN layout : layout[i].id # Inner.id
                 /\ \E k \in 1..Len(Appended) :
                       /\ \A i \in 1..k : /\ Appended[i].ev = "instr"
                                          /\ Appended[i].block = builder
                                          /\ Appended[i].by \in {"initialization", "assignment",
                                                                 "value"}
                       /\ Len(Appended) >= k + 6
                       /\ SubSeq(Appended, k + 1, k + 4) = CreatedAll("for", Inner.id, new)
                       /\ Appended[k + 5] = Emitted("for", Inner.id, builder, Br(cond_block))
                       /\ \A i \in (k + 6)..Len(Appended) : /\ Appended[i].ev = "instr"
                                                            /\ Appended[i].block = cond_block
                 /\ Appended[Len(Appended)] =
                        Emitted("for", Inner.id, cond_block,
                                CondBr("nottmp", body_block, end_block))
                 /\ builder' = body_block
        /\ (Exited("for") /\ Top.arity = 4) =>
              LET cond_block == Block("for_cond", Top.id)
                  body_block == Block("for_body", Top.id)
                  inc_block == Block("for_inc", Top.id)
                  end_block == Block("for_end", Top.id)
              IN /\ NoBlockSince(Top.id) => builder = body_block
                 /\ CodeIn(log, inc_block) = <<>>
                 /\ Len(Appended) >= 3
                 /\ Appended[1] = Emitted("for", Top.id, builder, Br(inc_block))
                 /\ \A i \in 2..Len(Appended) : /\ Appended[i].ev = "instr"
                                                /\ Appended[i].block = inc_block
                 /\ Appended[Len(Appended)] = Emitted("for", Top.id, inc_block, Br(cond_block))
                 /\ builder' = end_block
      ]_vars

(* A for loop of four children has been lowered, its body holding a        *)
(* statement that emitted an instruction.                                  *)
C9_Witness ==
    /\ returned.handler = "for" /\ returned.arity = 4 /\ returned.ok
    /\ CodeIn(log, Block("for_body", returned.id)) # <<>>
    /\ builder = Block("for_end", returned.id)
    /\ log[Len(log)] = Emitted("for", returned.id, Block("for_inc", returned.id),
                               Br(Block("for_cond", returned.id)))

(* The numbers of children the handlers lower, and the documented ones.    *)
Lowerable(kind, n) ==
    CASE kind = "if" -> n \in {2, 3}
      [] kind \in {"while", "do_while"} -> n \in {0, 1, 2}
      [] kind = "for" -> n \in {0, 1, 2, 3, 4}

Documented(kind, n) ==
    CASE kind = "if" -> n \in {2, 3}
      [] kind \in {"while", "do_while"} -> n = 2
      [] kind = "for" -> n = 4

ArityErrors ==
    {DevError("Invalid if node"),
     DevError("Invalid while node: unexpected number of children"),
     DevError("Invalid do-while node: unexpected number of children"),
     DevError("Invalid for node: unexpected number of children")}

(* The step routed a node of this kind with n children.                    *)
RoutedNode(kind, n) ==
    /\ lowered' = lowered + 1
    /\ \/ Entered(kind) /\ Inner.arity = n
       \/ returned'.handler = kind /\ returned'.arity = n

(* Every node whose number of children is not accepted is rejected with a  *)
(* developer error before any block, instruction or label id is made.      *)
RejectsAllBut(Accepted(_, _)) ==
    \A kind \in Constructs : \A n \in 0..5 :
        (RoutedNode(kind, n) /\ ~Accepted(kind, n)) =>
            /\ result'.kind = "DevError"
            /\ ~returned'.ok
            /\ log' = log
            /\ layout' = layout
            /\ next_label_id' = next_label_id
            /\ builder' = builder

(* No node whose number of children is accepted is rejected for it.        *)
LowersAll(Accepted(_, _)) ==
    \A kind \in Constructs : \A n \in 0..5 :
        (RoutedNode(kind, n) /\ Accepted(kind, n)) => result' \notin ArityErrors

(* C10 as stated: every control-flow node whose number of children is not  *)
(* the documented one (if 2 or 3, while 2, do-while 2, for 4) is rejected  *)
(* with a developer error before any block or instruction is made.         *)
C10_RejectsUndocumentedArity == [][RejectsAllBut(Documented)]_vars

(* C10: an if node with other than 2 or 3 children, a while or do-while    *)
(* node with more than 2 and a for node with more than 4 are rejected with *)
(* a developer error before any block or instruction is made; while and    *)
(* do-while nodes of 0 to 2 children and for nodes of 0 to 4 are lowered.  *)
C10_RejectsUnhandledArity == [][RejectsAllBut(Lowerable) /\ LowersAll(Lowerable)]_vars

(* A node with more children than its handler takes has been rejected as   *)
(* the first statement of the function: nothing but the entry block exists. *)
C10_Witness ==
    /\ returned.handler \in Constructs /\ ~returned.ok
    /\ ~Lowerable(returned.handler, returned.arity)
    /\ result \in ArityErrors
    /\ log = <<Created("fn", 0, Block("entry", 0))>>
    /\ next_label_id = 1

-----------------------------------------------------------------------------
(* Claims about the loops and the failures of the parser (ParserSpec).     *)

(* An iteration begun with the cursor at cur leaves the loop or goes round *)
(* again with the cursor further on.                                       *)
Progress(it, cur) == it.left \/ it.pos > cur

(* The minimum precedences parse_expression_with_precedence is called with. *)
Minimums == 0..4

(* C11: Parser::parse terminates: at every cursor position of every token  *)
(* vector, an iteration of the driver loop of parse, of the loop of         *)
(* parse_block, of parse_case and parse_default, of parse_switch_statement  *)
(* and of the precedence loop returns (a result or an error) or strictly    *)
(* increases the cursor; and parse, once called, has returned an error or   *)
(* a TopLevelExpression with the cursor at EOF or at the end of the input.  *)
C11_LoopsProgress ==
    /\ \A cur \in 0..Len(input) :
          /\ Progress(parse_iteration(<<>>, cur), cur)
          /\ Progress(block_iteration(<<>>, cur), cur)
          /\ Progress(case_body_iteration(NoNode, cur, ""), cur)
          /\ Progress(switch_iteration(NoNode, cur), cur)
          /\ \A min_precedence \in Minimums :
                Progress(precedence_iteration(NoNode, cur, min_precedence), cur)
    /\ (called = "parse" /\ out.ok) =>
          /\ out.some /\ out.node.type = "TopLevelExpression"
          /\ get_current_token(out.pos).t \in {"None", "EOF"}

(* parse has gone through  { EOF } ;  : the block loop advanced over the    *)
(* EOF the dispatcher left in place, the driver over the dispatcher's None. *)
C11_Witness ==
    /\ called = "parse"
    /\ input = <<Tok("LBRACKET"), Tok("EOF"), Tok("RBRACKET"), Tok("SEMICOLON")>>
    /\ out.ok /\ current = 4
    /\ out.node.children = <<Node("BlockExpression", "", <<>>)>>

(* C12: wherever the cursor is, when the current token is a ; or a } the    *)
(* dispatcher parse_router returns Ok(None), no node and no error, with the *)
(* cursor past that one token; so does the call made by the ParseRouter     *)
(* step.                                                                    *)
C12_StrayTokensSkipped ==
    /\ \A cur \in 0..(Len(input) - 1) :
          get_current_token(cur).t \in {"SEMICOLON", "RBRACKET"}
          => parse_router(cur) = OkNone(cur + 1)
    /\ (called = "parse_router" /\ input # <<>> /\ input[1].t \in {"SEMICOLON", "RBRACKET"})
       => (out.ok /\ ~out.some /\ out.errs = <<>> /\ current = 1)

(* The dispatcher was called on  } 1  and on  ; ;  and skipped one token.   *)
C12_Witness ==
    /\ called = "parse_router"
    /\ input \in {<<Tok("RBRACKET"), NUMBER("1")>>, <<Tok("SEMICOLON"), Tok("SEMICOLON")>>}
    /\ out = OkNone(1) /\ current = 1

(* C13: every failure a parser method returns carries at least one syntax   *)
(* error and no node; and parse is fail-fast: an iteration of its driver    *)
(* loop in which the dispatcher fails leaves the loop with that failure, so *)
(* a failed parse returns a failure of the dispatcher, no AST, and the      *)
(* cursor stays where the failing call left it.                             *)
C13_FailFast ==
    /\ (called # "new" /\ ~out.ok)
       => (/\ Len(out.errs) >= 1
           /\ \A i \in 1..Len(out.errs) : out.errs[i] # ""
           /\ ~out.some /\ out.node = NoNode)
    /\ \A cur \in 0..Len(input) :
          ~parse_router(cur).ok
          => (/\ Len(parse_router(cur).errs) >= 1
              /\ parse_iteration(<<>>, cur) = Leave(parse_router(cur)))
    /\ (called = "parse" /\ ~out.ok)
       => (/\ \E cur \in 0..Len(input) : parse_router(cur) = out
           /\ current = out.pos)

(* parse has failed on the break of  break 1 ;  and parsed nothing after it. *)
C13_Witness ==
    /\ called = "parse"
    /\ input = <<Tok("BREAK"), NUMBER("1"), Tok("SEMICOLON")>>
    /\ ~out.ok /\ ~out.some /\ Len(out.errs) = 1
    /\ current = 1

(* The number of { less the number of } among the first n tokens of s.      *)
RECURSIVE Depth(_, _)
Depth(s, n) ==
    IF n = 0 THEN 0
    ELSE Depth(s, n - 1) + (CASE s[n] = Tok("LBRACKET") -> 1
                              [] s[n] = Tok("RBRACKET") -> -1
                              [] OTHER -> 0)

(* The { at s[1] has its matching } at s[n].                                *)
ClosedAt(s, n) == Depth(s, n) = 0 /\ \A k \in 1..(n - 1) : Depth(s, k) > 0

(* C14: parse_block, called with the cursor at the start, returns a node    *)
(* only as a BlockExpression and only with the cursor just past the } that  *)
(* matches the opening {; when the tokens end (after an EOF token or        *)
(* without one) before that }, it returns one syntax error and no node; and *)
(* an iteration of its loop at a ; adds no child, does not fail and moves   *)
(* the cursor past the ;.                                                   *)
C14_BlockClosed ==
    /\ (called = "parse_block" /\ out.ok)
       => (/\ out.some /\ out.node.type = "BlockExpression"
           /\ out.pos >= 2 /\ input[1] = Tok("LBRACKET") /\ input[out.pos] = Tok("RBRACKET")
           /\ ClosedAt(input, out.pos))
    /\ (/\ called = "parse_block" /\ input # <<>> /\ input[1] = Tok("LBRACKET")
        /\ \A n \in 1..Len(input) : ~ClosedAt(input, n))
       => (~out.ok /\ ~out.some /\ out.node = NoNode /\ Len(out.errs) = 1)
    /\ \A cur \in 0..(Len(input) - 1) :
          get_current_token(cur) = Tok("SEMICOLON")
          => block_iteration(<<>>, cur) = Again(<<>>, cur + 1)

(* { ; 1 }  has been parsed to a block whose one child is the literal.      *)
C14_Witness ==
    /\ called = "parse_block"
    /\ input = <<Tok("LBRACKET"), Tok("SEMICOLON"), NUMBER("1"), Tok("RBRACKET")>>
    /\ out = Ok(Node("BlockExpression", "", <<Leaf("Literal", "1")>>), 4)

-----------------------------------------------------------------------------
(* Further claims about the lowering (Spec).                               *)

(* C15: a break or a continue lowered while the break/continue stack is     *)
(* empty returns the developer error "No break/continue targets available": *)
(* nothing is appended to the log (no branch, to no block), no block is     *)
(* created, the builder stays where it was and the lowering has failed.     *)
C15_NoTargetIsAnError ==
    [][ ((Handled("break") \/ Handled("continue")) /\ break_continue_targets = <<>>)
        => (/\ ~returned'.ok
            /\ result' = DevError("No break/continue targets available")
            /\ Appended = <<>>
            /\ layout' = layout /\ builder' = builder)
      ]_vars

(* A break was lowered after a while loop had been lowered and left: the    *)
(* loop's end block exists, and the break failed instead of branching to it. *)
C15_Witness ==
    /\ returned.handler = "break" /\ ~returned.ok
    /\ result = DevError("No break/continue targets available")
    /\ break_continue_targets = <<>>
    /\ \E i \in DOMAIN log : log[i].ev = "block" /\ log[i].block.label = "while_end"
    /\ \A i \in DOMAIN log : log[i].by # "break"

(* The construct instances that take a label id.                           *)
Labelled == Constructs \cup {"fn"}

(* C16: no two basic blocks of the layout have the same name, whatever      *)
(* constructs were lowered and however they nest; a step that creates       *)
(* blocks is the entry of one construct instance, which takes the value of  *)
(* the label counter for all its blocks and moves the counter on by one;    *)
(* every block created before has a smaller id; the counter never goes      *)
(* back.                                                                    *)
C16_UniqueBlockNames ==
    [][ /\ next_label_id' >= next_label_id
        /\ \A i, j \in DOMAIN layout' : i # j => Name(layout'[i]) # Name(layout'[j])
        /\ \A i \in DOMAIN log : log[i].ev = "block" => log[i].id < next_label_id
        /\ (\E i \in DOMAIN Appended : Appended[i].ev = "block")
           => (/\ \E kind \in Labelled : Entered(kind)
               /\ Inner.id = next_label_id
               /\ next_label_id' = next_label_id + 1
               /\ \A i \in DOMAIN Appended :
                     Appended[i].ev = "block"
                     => (Appended[i].id = next_label_id /\ Appended[i].block.id = next_label_id))
      ]_vars

(* A while loop nested directly in a while loop: the two cond blocks are    *)
(* both laid out, under different names.                                    *)
C16_Witness ==
    /\ Len(frames) = 3
    /\ frames[2].kind = "while" /\ frames[3].kind = "while"
    /\ frames[2].id # frames[3].id
    /\ \E i, j \in DOMAIN layout :
          /\ layout[i] = Block("while_cond", frames[2].id)
          /\ layout[j] = Block("while_cond", frames[3].id)
          /\ Name(layout[i]) # Name(layout[j])


(* The pool is held when the handler reaches one of its ir_router calls.   *)
held_at_router(ops) ==
    \E i \in DOMAIN ops :
        /\ ops[i] = "ir_router"
        /\ Held \in pool_after({Free}, SubSeq(ops, 1, i - 1))

(* C17: no lowering function holds the resource-pool lock at the moment it *)
(* calls ir_router on a child: on every path of every handler each         *)
(* acquisition is released before the next call that re-enters the         *)
(* generator, so in a single-threaded lowering no try_lock (or lock) on    *)
(* the pool fails and the pool is free whenever a child is being lowered.  *)
C17_PoolFreeAtRouter ==
    /\ resource_pools = Free
    /\ \A segment \in Segments : \A ops \in pool_ops(segment) : ~held_at_router(ops)

(* A return with a value has been lowered inside an if inside the function *)
(* body: three handlers deep, each having taken and released the pool.     *)
C17_Witness ==
    /\ returned.handler = "return"
    /\ returned.ok
    /\ Len(frames) >= 2
    /\ frames[Len(frames)].kind = "if"
    /\ resource_pools = Free


(* The pairs the loops being lowered have pushed, outermost first.         *)
RECURSIVE PushedBy(_)
PushedBy(fs) ==
    IF fs = <<>> THEN <<>>
    ELSE LET f == fs[Len(fs)]
         IN IF f.kind \in LoopKinds
            THEN Append(PushedBy(Pop(fs)), <<EndBlock(f), ContinueBlock(f)>>)
            ELSE PushedBy(Pop(fs))

LoopEntered ==
    /\ Len(frames') = Len(frames) + 1
    /\ frames'[Len(frames')].kind \in LoopKinds

LoopReturned == \E kind \in LoopKinds : Exited(kind) /\ returned'.handler = kind /\ returned'.ok

(* C18: each loop lowering pushes exactly one (break target, continue      *)
(* target) pair before its body and pops exactly one after it: while a     *)
(* body is lowered the stack holds the pairs of the enclosing loops and    *)
(* nothing else, a loop lowering that returns successfully leaves the      *)
(* stack as it was at its entry, and after the whole function has been     *)
(* lowered successfully the stack is empty.                                *)
C18_StackBalanced ==
    /\ [](result \in {Running, Done} => break_continue_targets = PushedBy(frames))
    /\ [](result = Done => break_continue_targets = <<>>)
    /\ [][ /\ LoopEntered =>
                /\ Len(break_continue_targets') = Len(break_continue_targets) + 1
                /\ Pop(break_continue_targets') = break_continue_targets
           /\ LoopReturned =>
                /\ Len(break_continue_targets') = Len(break_continue_targets) - 1
                /\ break_continue_targets' = PushedBy(frames')
         ]_vars

(* A for loop nested in a while has returned: the stack is back to the     *)
(* while's pair alone.                                                     *)
C18_Witness ==
    /\ returned.handler = "for" /\ returned.ok
    /\ Len(frames) = 2 /\ frames[2].kind = "while"
    /\ break_continue_targets =
          <<<<Block("while_end", frames[2].id), Block("while_cond", frames[2].id)>>>>


(*-------------------------------------------------------------------------*)
(* Claims about the operators of the expression parser (ParserSpec)        *)

(* The input is  a op b  and parse_binary_expression was applied to it.    *)
Simple ==
    /\ called = "parse_binary_expression"
    /\ Len(input) = 3
    /\ IsOperand(input[1]) /\ IsOperand(input[3])

SingleNode ==
    /\ out = Ok(Tree(OperandLeaf(input[1]), input[2], OperandLeaf(input[3])), 3)
    /\ get_precedence(Symbol(input[2])) = Tier(input[2])

(* C19 as stated: for each of the eleven operators * / % + - < > <= >= ==  *)
(* != the token sequence  a op b  parses to the single node                *)
(* BinaryExpression[a, Operator(op), b], the operator having its tier.     *)
C19_ElevenOperators == (Simple /\ input[2] \in OperatorTokens) => SingleNode

(* C19, for the nine operators * / % + - < > == != the loop's match        *)
(* names:  a op b  parses to BinaryExpression[a, Operator(op), b].         *)
C19_NineOperators == (Simple /\ Recognised(input[2])) => SingleNode

(* a <= b has been parsed: the result is the operand a alone, with the     *)
(* cursor left on the operator.                                            *)
C19_Witness ==
    /\ Simple
    /\ input[2] = Tok("LESSTHANEQUAL")
    /\ out = Ok(OperandLeaf(input[1]), 1)


(*-------------------------------------------------------------------------*)
(* Claims about the lowering of a while loop (Spec)                        *)

(* C20: a while loop of condition and body creates cond, body and end, in  *)
(* that layout order, under one label id; branches from the block current  *)
(* at entry to cond; emits the condition and the conditional branch to     *)
(* body/end in cond; lowers the body starting in the body block with       *)
(* (end, cond) on top of the break/continue stack; follows the body with   *)
(* an unconditional branch back to cond; and returns with the builder at   *)
(* end.                                                                    *)
C20_WhileOrder ==
    [][ /\ (Entered("while") /\ Inner.arity = 2) =>
              LET cond_block == Block("while_cond", Inner.id)
                  body_block == Block("while_body", Inner.id)
                  end_block == Block("while_end", Inner.id)
                  new == <<cond_block, body_block, end_block>>
              IN /\ \A i \in DOMAIN layout : layout[i].id # Inner.id
                 /\ Len(Appended) >= 5
                 /\ SubSeq(Appended, 1, 3) = CreatedAll("while", Inner.id, new)
                 /\ \E i \in DOMAIN layout' : SubSeq(layout', i, i + 2) = new
                 /\ Appended[4] = Emitted("while", Inner.id, builder, Br(cond_block))
                 /\ \A i \in 5..Len(Appended) : /\ Appended[i].ev = "instr"
                                                /\ Appended[i].block = cond_block
                 /\ Appended[Len(Appended)] =
                        Emitted("while", Inner.id, cond_block,
                                CondBr("nottmp", body_block, end_block))
                 /\ builder' = body_block
                 /\ CodeIn(log', body_block) = <<>>
                 /\ break_continue_targets' # <<>>
                 /\ break_continue_targets'[Len(break_continue_targets')] =
                        <<end_block, cond_block>>
        /\ (Exited("while") /\ Top.arity = 2 /\ returned'.ok) =>
              LET cond_block == Block("while_cond", Top.id)
                  body_block == Block("while_body", Top.id)
                  end_block == Block("while_end", Top.id)
              IN /\ break_continue_targets # <<>>
                 /\ break_continue_targets[Len(break_continue_targets)] =
                        <<end_block, cond_block>>
                 /\ NoBlockSince(Top.id) => builder = body_block
                 /\ Appended = <<Emitted("while", Top.id, builder, Br(cond_block))>>
                 /\ builder' = end_block
      ]_vars

(* A while of condition and body has been lowered, its body holding a      *)
(* statement that emitted an instruction into the body block: the body     *)
(* block ends with the branch back to cond.                                *)
C20_Witness ==
    /\ returned.handler = "while" /\ returned.arity = 2 /\ returned.ok
    /\ builder = Block("while_end", returned.id)
    /\ LET body_code == CodeIn(log, Block("while_body", returned.id))
       IN /\ Len(body_code) >= 2
          /\ body_code[Len(body_code)] = Br(Block("while_cond", returned.id))


(*-------------------------------------------------------------------------*)
(* Claims about conditions and returns in the lowering (Spec)              *)

(* The step lowered a construct's condition and its conditional branch.    *)
ConditionLowered == cond_node' # NoCond /\ log' # log

(* The condition node is itself the literal true or false.                 *)
IsBooleanLiteral(cond) == cond.node = "Literal" /\ cond.kind \in {"true", "false"}

Operations(events) == {events[i].ins.op : i \in DOMAIN events}

(* The branch is on the condition's own value, nothing compared or negated. *)
UsedDirectly ==
    /\ Operations(Appended) \cap {"icmp_eq", "not"} = {}
    /\ Appended[Len(Appended)].ins.op = "condbr"
    /\ Appended[Len(Appended)].ins.name = "literal"

(* The value is compared with 0, the result negated, and the branch is on  *)
(* the negation.                                                           *)
Converted ==
    /\ Len(Appended) >= 3
    /\ Appended[Len(Appended) - 2].ins = ICmpEq
    /\ Appended[Len(Appended) - 1].ins = LogicalNot
    /\ Appended[Len(Appended)].ins.op = "condbr"
    /\ Appended[Len(Appended)].ins.name = "nottmp"

(* C21 as stated: in if, while, do-while and for alike, a condition that   *)
(* is the boolean literal true or false is the operand of the conditional  *)
(* branch with no comparison and no negation emitted, and every other      *)
(* condition is compared with 0 and negated.                               *)
C21_BooleanLiteralsDirect ==
    [][ ConditionLowered =>
            IF IsBooleanLiteral(cond_node') THEN UsedDirectly ELSE Converted ]_vars

(* C21, as the code has it: an if uses a bare boolean literal directly and *)
(* converts every other condition; the loops convert every condition, a    *)
(* boolean literal included.                                               *)
C21_OnlyIfUsesLiteralsDirectly ==
    [][ ConditionLowered =>
            IF Entered("if") /\ IsBooleanLiteral(cond_node') THEN UsedDirectly ELSE Converted
      ]_vars

(* A while whose condition is the literal true has been entered: its cond  *)
(* block holds the comparison, the negation and the branch on the          *)
(* negation.                                                               *)
C21_Witness ==
    /\ cond_node = Cond("Literal", "true")
    /\ frames # <<>> /\ Top.kind = "while"
    /\ CodeIn(log, Block("while_cond", Top.id)) =
          <<ICmpEq, LogicalNot,
            CondBr("nottmp", Block("while_body", Top.id), Block("while_end", Top.id))>>


(* The step is the part of generate_if_ir that follows the lowering of the *)
(* then body or of the else body.                                          *)
IfBodyLowered ==
    /\ frames # <<>> /\ Top.kind = "if"
    /\ frames' # <<>> /\ frames' # frames /\ Len(frames') <= Len(frames)

(* The last statement lowered in the body was a return.                    *)
EndsInReturn == returned.handler = "return" /\ returned.ok

(* The step emits a branch to the if's merge block where the body left the *)
(* builder.                                                                *)
BranchesToMerge ==
    \E i \in DOMAIN Appended :
        Appended[i] = Emitted("if", Top.id, builder, Br(Block("merge", Top.id)))

(* C22 as stated: after a then body or an else body that ends in a return  *)
(* no branch to merge is emitted; the branch to merge is emitted only      *)
(* after a body that did not end in a return.                              *)
C22_NoBranchAfterReturn ==
    [][ IfBodyLowered => (BranchesToMerge <=> ~EndsInReturn) ]_vars

(* C22, as the code has it: a body that is a block (or a statement)        *)
(* returns Ok(None) to generate_if_ir, so the branch to merge is emitted   *)
(* after every such body, one that ends in a return included.              *)
C22_BranchAfterEveryBody == [][ IfBodyLowered => BranchesToMerge ]_vars

(* An if whose then body is a single return has been lowered: its then     *)
(* block holds the return followed by the branch to merge.                 *)
C22_Witness ==
    /\ returned.handler = "if" /\ returned.ok
    /\ CodeIn(log, Block("then", returned.id)) =
          <<Ret("void"), Br(Block("merge", returned.id))>>


(*-------------------------------------------------------------------------*)
(* Claims about the layout of the blocks (Spec)                            *)

(* The blocks the step created.                                            *)
CreatedIn(events) == {events[i].block : i \in {j \in DOMAIN events : events[j].ev = "block"}}

(* C23 as stated: every block a construct creates is placed in layout      *)
(* order after the block the builder was positioned in when the lowering   *)
(* of the construct began.                                                 *)
C23_BlocksAfterEntryBlock ==
    [][ \A kind \in Constructs :
            Entered(kind) => \A b \in CreatedIn(Appended) : Before(layout', builder, b) ]_vars

(* C23, as the code has it: the blocks of a construct are chained after    *)
(* the insertion anchor, which is the merge block of the last if that was  *)
(* entered and the builder's block only while no if has been lowered.      *)
C23_BlocksAfterAnchor ==
    [][ \A kind \in Constructs :
            Entered(kind) =>
                LET new == [i \in 1..Cardinality(CreatedIn(Appended)) |-> Appended[
                               CHOOSE j \in DOMAIN Appended :
                                   /\ Appended[j].ev = "block"
                                   /\ Cardinality({k \in 1..j : Appended[k].ev = "block"}) = i
                             ].block]
                IN /\ new # <<>>
                   /\ \E i \in DOMAIN layout' :
                         /\ layout'[i] = current_insert
                         /\ SubSeq(layout', i + 1, i + Len(new)) = new
      ]_vars

(* After an if, a while loop was lowered and a second while loop has been  *)
(* entered from the first one's end block: the blocks of the second are    *)
(* laid out before that end block.                                         *)
C23_Witness ==
    /\ frames # <<>> /\ Top.kind = "while"
    /\ \E first \in 0..Top.id :
          /\ first < Top.id
          /\ \E i \in DOMAIN log :
                log[i] = Emitted("while", Top.id, Block("while_end", first),
                                 Br(Block("while_cond", Top.id)))
          /\ Before(layout, Block("while_end", Top.id), Block("while_end", first))


(*-------------------------------------------------------------------------*)
(* Claims about the lowering of an Initialization (InitializationSpec)     *)

(* generate_initialization_ir has returned.                                *)
InitializationLowered == ir # NoLowering

Children == initialization_node.children

(* The initial value of the node: the third child, or the second when it   *)
(* is not a type.                                                          *)
InitialValue ==
    CASE Len(Children) = 3 -> Children[3]
      [] Len(Children) = 2 /\ Children[2].type # "Type" -> Children[2]
      [] OTHER -> NoNode

(* The value is a Variable node, bare or under AssignedValue wrappers.     *)
RECURSIVE RefersToVariable(_)
RefersToVariable(v) ==
    \/ v.type = "Variable"
    \/ v.type = "AssignedValue" /\ Len(v.children) = 1 /\ RefersToVariable(v.children[1])

Ops == [i \in DOMAIN ir.events |-> ir.events[i].op]

(* C24: when the initial value of an Initialization is a reference to      *)
(* another variable, bare or nested in AssignedValue wrappers, the load    *)
(* from the source is emitted before the allocation of the destination     *)
(* and the store follows the allocation; in every other case the           *)
(* allocation is emitted before the initial value is lowered.              *)
C24_LoadBeforeAllocation ==
    (InitializationLowered /\ ir.ok) =>
        IF InitialValue # NoNode /\ RefersToVariable(InitialValue)
        THEN /\ Ops = <<"load", "alloca", "store">>
             /\ ir.events[1].name = "y"
             /\ ir.events[2].name = "x" /\ ir.events[3].name = "x"
        ELSE /\ Ops # <<>> /\ Ops[1] = "alloca"
             /\ InitialValue # NoNode => Ops = <<"alloca", "ir_router", "store">>
             /\ InitialValue = NoNode => Ops = <<"alloca">>

(* An Initialization whose value is a Variable under two AssignedValue     *)
(* wrappers has been lowered: load, alloca, store.                         *)
C24_Witness ==
    /\ InitializationLowered /\ ir.ok
    /\ InitialValue = Node("AssignedValue", "", <<Node("AssignedValue", "", <<Reference>>)>>)
    /\ Ops = <<"load", "alloca", "store">>


(* The type node of the declaration: the Type child of the Initialization. *)
DeclaredType ==
    IF Len(Children) \in {2, 3} /\ Children[2].type = "Type" THEN Children[2].val ELSE "None"

(* The type the storage was allocated with.                                *)
AllocatedType ==
    LET i == CHOOSE i \in DOMAIN ir.events : ir.events[i].op = "alloca" IN ir.events[i].type

(* The node has 2 or 3 children and a well-formed assignee.                *)
WellFormed ==
    /\ Len(Children) \in {2, 3}
    /\ \/ Children[1].type = "Identifier"
       \/ Children[1].type = "Variable" /\ Children[1].children # <<>>
                                        /\ Children[1].children[1].type = "Identifier"

(* C25 as stated: the storage is allocated with the type of the explicit   *)
(* type node (Integer, Float, Boolean or Void) whenever there is one and   *)
(* with the 64-bit integer type only when there is none, whatever the      *)
(* form of the initial value; any other declared type is a developer       *)
(* error.                                                                  *)
C25_DeclaredTypeAllocated ==
    (InitializationLowered /\ WellFormed) =>
        CASE DeclaredType = "None" -> ir.ok => AllocatedType = "i64"
          [] DeclaredType \in {"Integer", "Float", "Boolean", "Void"} ->
                ir.ok => AllocatedType = type_tag_of(DeclaredType)
          [] OTHER -> ~ir.ok /\ ir.message = "Unsupported data type" /\ ir.events = <<>>

(* C25, as the code has it: the declared type is the allocated one unless  *)
(* the initial value refers to a variable; then the storage is allocated   *)
(* with the 64-bit integer type whatever type was declared.                *)
C25_DeclaredTypeUnlessReference ==
    (InitializationLowered /\ WellFormed) =>
        CASE DeclaredType \notin {"None", "Integer", "Float", "Boolean", "Void"} ->
                ~ir.ok /\ ir.message = "Unsupported data type" /\ ir.events = <<>>
          [] OTHER ->
                ir.ok => AllocatedType =
                            IF DeclaredType = "None" \/ RefersToVariable(InitialValue)
                            THEN "i64" ELSE type_tag_of(DeclaredType)

(* float x = y, given as [Identifier x, Type(Float), Variable y], has been *)
(* lowered: the storage of x is allocated as a 64-bit integer.             *)
C25_Witness ==
    /\ InitializationLowered /\ ir.ok
    /\ Children = <<Leaf("Identifier", "x"), Leaf("Type", "Float"), Reference>>
    /\ AllocatedType = "i64"


(* parse_initialization returned an Initialization node and the node has   *)
(* been lowered.                                                           *)
ParsedAndLowered ==
    /\ called = "parse_initialization" /\ out.ok
    /\ initialization_node.type = "Initialization"
    /\ InitializationLowered

(* C26 as stated: no Initialization node parse_initialization returns, for *)
(* a declaration without or with an initial value, is rejected by          *)
(* generate_initialization_ir for its number of children.                  *)
C26_ParsedNodesAccepted == ParsedAndLowered => ir.message # ExpectedChildren

(* C26, as the code has it: the node of a declaration with an initial      *)
(* value has two children and is accepted; the node of a declaration       *)
(* without one has the Variable child alone and is rejected.               *)
C26_OnlyInitializedAccepted ==
    ParsedAndLowered =>
        /\ Len(Children) \in {1, 2}
        /\ Len(Children) = 2 <=> Tok("EQUAL") \in {input[i] : i \in DOMAIN input}
        /\ ir.message = ExpectedChildren <=> Len(Children) = 1

(* int x; has been parsed and its node lowered: the lowering failed with   *)
(* the developer error about the number of children.                       *)
C26_Witness ==
    /\ ParsedAndLowered
    /\ input = <<Tok("TINTEGER"), IDENTIFIER("x"), Tok("SEMICOLON")>>
    /\ initialization_node = Node("Initialization", "", <<VariableOf("x", "Integer")>>)
    /\ ~ir.ok /\ ir.message = ExpectedChildren


(*-------------------------------------------------------------------------*)
(* Further claims about the parser (ParserSpec)                            *)

Stray(tok) == tok \in {Tok("SEMICOLON"), Tok("RBRACKET")}

(* The loop goes round again with the cursor on the token after cur.       *)
ResumesAfter(it, cur) == ~it.left /\ it.pos = cur + 1

(* C27 as stated: no token is skipped unexamined.  Wherever the cursor is, *)
(* an iteration of the driver loop of parse that finds a stray ; or } and  *)
(* an iteration of a case or default body that finds a stray ; go on with  *)
(* the very next token, so that the statement after the stray token is     *)
(* parsed.                                                                 *)
C27_NoTokenSkipped ==
    \A cur \in 0..(Len(input) - 1) :
        /\ Stray(get_current_token(cur)) => ResumesAfter(parse_iteration(<<>>, cur), cur)
        /\ get_current_token(cur) = Tok("SEMICOLON") =>
              ResumesAfter(case_body_iteration(NoNode, cur, ""), cur)

(* C27, as the code has it: the dispatcher consumes the stray token and    *)
(* the loop then advances once more, so the token after the stray one is   *)
(* passed over, whatever it is.                                            *)
C27_TokenAfterStraySkipped ==
    \A cur \in 0..(Len(input) - 1) :
        /\ Stray(get_current_token(cur)) =>
              LET it == parse_iteration(<<>>, cur)
              IN ~it.left /\ it.pos = advance(cur + 1) /\ it.acc = <<>>
        /\ get_current_token(cur) = Tok("SEMICOLON") =>
              LET it == case_body_iteration(NoNode, cur, "")
              IN ~it.left /\ it.pos = advance(cur + 1)

(* parse has gone through  ; break ;  : the break after the stray ; was    *)
(* never handed to the dispatcher and the tree has no child.               *)
C27_Witness ==
    /\ called = "parse"
    /\ input = <<Tok("SEMICOLON"), Tok("BREAK"), Tok("SEMICOLON")>>
    /\ out.ok /\ current = 3
    /\ out.node = Node("TopLevelExpression", "", <<>>)
    /\ parse_iteration(<<>>, 1).acc # <<>>


(* The token vector is ( E ) with E an expression parse_binary_expression  *)
(* accepts: parsed from the token after the parenthesis, it ends on the    *)
(* closing parenthesis.                                                    *)
ParenthesizedExpression ==
    /\ get_current_token(0) = Tok("LPAREN")
    /\ parse_binary_expression(1).ok
    /\ get_current_token(parse_binary_expression(1).pos) = Tok("RPAREN")

(* C28 as stated: between ( and ) parse_condition accepts every expression *)
(* parse_binary_expression accepts and returns a Condition node whose one  *)
(* child is the tree of that expression.                                   *)
C28_ConditionAcceptsExpressions ==
    ParenthesizedExpression =>
        LET expr == parse_binary_expression(1)
        IN parse_condition(0) = Ok(Node("Condition", "", <<expr.node>>), advance(expr.pos))

(* C28, as the code has it: a condition that begins with a number or an    *)
(* identifier is that operand alone, and when an operator follows it the   *)
(* closing parenthesis is not found; only a condition that is one operand  *)
(* or begins with a parenthesis is parsed as the expression it is.         *)
C28_OperandFirstConditionRejected ==
    ParenthesizedExpression =>
        LET expr == parse_binary_expression(1)
            cond == parse_condition(0)
        IN IF get_current_token(1).t \in {"NUMBER", "IDENTIFIER"} /\ expr.pos > 2
           THEN cond = Err("Expected ')' after condition", 2)
           ELSE cond = Ok(Node("Condition", "", <<expr.node>>), advance(expr.pos))

(* parse_condition has been applied to  ( a < 2 )  and has failed on the   *)
(* operator, although the expression between the parentheses is accepted   *)
(* by parse_binary_expression.                                             *)
C28_Witness ==
    /\ called = "parse_condition"
    /\ input = <<Tok("LPAREN"), IDENTIFIER("a"), Tok("LESSTHAN"), NUMBER("2"), Tok("RPAREN")>>
    /\ ParenthesizedExpression
    /\ parse_binary_expression(1).node.type = "BinaryExpression"
    /\ out = Err("Expected ')' after condition", 2)
    /\ current = 2


(* The token vector is  x = E  with E an expression that                   *)
(* parse_binary_expression, applied after the =, accepts to its end.       *)
AssignedExpression ==
    /\ Len(input) >= 3
    /\ get_current_token(0) = IDENTIFIER("x")
    /\ get_current_token(1) = Tok("EQUAL")
    /\ parse_binary_expression(2).ok
    /\ parse_binary_expression(2).pos = Len(input)

AssignmentNode(name, value) == Node("Assignment", "", <<Leaf("Identifier", name), value>>)

(* C29 as stated: the value of an assignment  x = E  is the tree that      *)
(* parse_binary_expression returns for E, folded with the precedence and   *)
(* associativity of every other expression.                                *)
C29_AssignedValueFoldedByPrecedence ==
    AssignedExpression =>
        parse_identifier(0) = Ok(AssignmentNode("x", parse_binary_expression(2).node), Len(input))

(* The operand at place k of the flat expression after the =, and the tree *)
(* that takes the first k operands strictly from left to right.            *)
OperandAt(k) ==
    LET tok == get_current_token(2 * k) IN
    IF tok.t = "NUMBER" THEN Leaf("Literal", tok.v) ELSE Leaf("Identifier", tok.v)

RECURSIVE LeftToRight(_)
LeftToRight(k) ==
    IF k = 1 THEN OperandAt(1)
    ELSE BinaryExpression(LeftToRight(k - 1),
                          AssignmentOperatorOf(get_current_token(2 * k - 1)), OperandAt(k))

(* The operands the loop of parse_assignment takes: up to the first token  *)
(* that is not one of + - * /.                                             *)
RECURSIVE Taken(_)
Taken(k) ==
    IF AssignmentOperatorOf(get_current_token(2 * k + 1)) = "" THEN k ELSE Taken(k + 1)

(* C29, as the code has it: the value of  x = E  for operands joined by    *)
(* operators is taken strictly from left to right whatever the tiers of    *)
(* the operators, and ends before the first operator other than + - * /.   *)
C29_AssignedValueFoldedLeftToRight ==
    (AssignedExpression /\ Len(input) % 2 = 1
        /\ \A p \in 1..Len(input) : input[p] \notin {Tok("LPAREN"), Tok("RPAREN")}) =>
        LET k == Taken(1) IN
        parse_identifier(0) = Ok(AssignmentNode("x", LeftToRight(k)), 2 * k + 1)

(* The dispatcher has parsed  x = 1 + 2 * 3 : the value is (1 + 2) * 3,    *)
(* while parse_binary_expression gives 1 + (2 * 3) for the same tokens.    *)
C29_Witness ==
    /\ called = "parse_router"
    /\ input = <<IDENTIFIER("x"), Tok("EQUAL"), NUMBER("1"), Tok("PLUS"), NUMBER("2"),
                 Tok("ASTERISK"), NUMBER("3")>>
    /\ AssignedExpression
    /\ out = Ok(AssignmentNode("x",
                    BinaryExpression(
                        BinaryExpression(Leaf("Literal", "1"), "+", Leaf("Literal", "2")),
                        "*", Leaf("Literal", "3"))), 7)
    /\ parse_binary_expression(2).node =
           BinaryExpression(Leaf("Literal", "1"), "+",
               BinaryExpression(Leaf("Literal", "2"), "*", Leaf("Literal", "3")))


(*-------------------------------------------------------------------------*)
(* Claims about the terminators of the blocks (Spec)                       *)

IsTerminator(ins) == ins.op \in {"br", "condbr", "ret"}

(* The entries of log that emitted an instruction into the same block      *)
(* after the terminator at place i.                                        *)
EmittedAfter(i) ==
    {j \in DOMAIN log : j > i /\ log[j].ev = "instr" /\ log[j].block = log[i].block}

Terminators == {i \in DOMAIN log : log[i].ev = "instr" /\ IsTerminator(log[i].ins)}

(* C30 as stated: no block receives an instruction after its terminator,   *)
(* whatever the bodies end in.                                             *)
C30_NothingAfterTerminator == \A i \in Terminators : EmittedAfter(i) = {}

(* C30, as the code has it: a block goes on receiving instructions after   *)
(* the branch of a break or continue and after the ret of a return, the    *)
(* back-edge branch of the loop and the branch to merge of the if          *)
(* included; the terminators the constructs emit themselves end their      *)
(* blocks.                                                                 *)
C30_OnlyJumpStatementsLeaveBlockOpen ==
    \A i \in Terminators :
        EmittedAfter(i) # {} => log[i].by \in {"break", "continue", "return"}

(* A while loop whose body is a break has been lowered: the body block     *)
(* holds the branch of the break followed by the loop's back-edge branch.  *)
C30_Witness ==
    /\ returned.handler = "while" /\ returned.ok
    /\ CodeIn(log, Block("while_body", returned.id)) =
          <<Br(Block("while_end", returned.id)), Br(Block("while_cond", returned.id))>>

====
